---- MODULE Spec2Model ----
(***************************************************************************)
(* A model of the PyPage / html_generator library: the Element tree and    *)
(* its render() contract, the Page assembler, the Heading helper and the   *)
(* dictionary/JSON serialization engine (ExportManager).                   *)
(*                                                                         *)
(* Python strings are TLA+ strings.  Every other Python value is a tagged  *)
(* record, so that values of different Python types can be compared:       *)
(*   None, S(str), L(list), D(dict as insertion-ordered key/value pairs),  *)
(*   O(class name, address, instance __dict__), Err(exception class).      *)
(***************************************************************************)
EXTENDS Integers, Sequences, FiniteSets, TLC

VARIABLES
    node,       \* the live node (an Element or a Heading object), or NoObj
    origin,     \* how the node was built: "none", "setters", "other" or "from_dict"
    op,         \* the last call: its name, its arguments and its outcome
    steps,      \* number of mutating operations performed so far
    heading,    \* the Heading object (or NoObj)
    hres,       \* outcome of the last Heading operation
    page,       \* the Page object
    metaLog,    \* every add_meta_tag call, in call order
    linkLog,    \* every add_css_link call, in call order
    scriptLog,  \* every add_script call, in call order
    fragLog,    \* every fragment handed to body_content, in call order
    components, \* plugin_registry.components: the registered names and their classes
    hooks,      \* plugin_registry.hooks: the callbacks registered for each event
    generated_pages, \* the GeneratedPage rows and files written by api_generate
    heap        \* the objects a caller shares with from_dict, by address

vars == <<node, origin, op, steps, heading, hres, page, metaLog, linkLog, scriptLog, fragLog,
          components, hooks, generated_pages, heap>>

elemVars == <<node, origin>>
headVars == <<heading, hres>>
pageVars == <<page, metaLog, linkLog, scriptLog, fragLog>>
pluginVars == <<components, hooks>>
apiVars == <<generated_pages>>
heapVars == <<heap>>

-----------------------------------------------------------------------------
(* Bounds *)

\* mutating operations per behaviour
MaxSteps == 2
\* hook registrations per behaviour
MaxHooks == 3
\* heading levels range over MinLevel..MaxLevel
MaxLevel == 7

-----------------------------------------------------------------------------
(* Python values *)

None == [t |-> "none"]
S(s) == [t |-> "str", s |-> s]
L(l) == [t |-> "list", l |-> l]
D(kv) == [t |-> "dict", kv |-> kv]
O(cls, at, d) == [t |-> "obj", cls |-> cls, at |-> at, d |-> d]
Err(e) == [t |-> "err", e |-> e]
Bool(b) == [t |-> "bool", b |-> b]
Num(n) == [t |-> "int", n |-> n]
NoObj == [t |-> "noobj"]
NoResult == [t |-> "noresult"]

IsErr(v) == v.t = "err"
IsStr(v) == v.t = "str"
IsList(v) == v.t = "list"
IsDict(v) == v.t = "dict"
IsObj(v) == v.t = "obj"

\* bool(v)
Truthy(v) ==
    CASE v.t = "none" -> FALSE
      [] v.t = "str" -> v.s # ""
      [] v.t = "list" -> Len(v.l) > 0
      [] v.t = "dict" -> Len(v.kv) > 0
      [] v.t = "bool" -> v.b
      [] v.t = "int" -> v.n # 0
      [] OTHER -> TRUE

\* dict helpers (insertion-ordered, keys unique)
Keys(d) == {d.kv[i][1] : i \in 1..Len(d.kv)}
Has(d, k) == k \in Keys(d)
Get(d, k) == d.kv[CHOOSE i \in 1..Len(d.kv) : d.kv[i][1] = k][2]
GetOr(d, k, dflt) == IF Has(d, k) THEN Get(d, k) ELSE dflt
Put(d, k, v) ==
    IF Has(d, k)
    THEN D([i \in 1..Len(d.kv) |-> IF d.kv[i][1] = k THEN <<k, v>> ELSE d.kv[i]])
    ELSE D(Append(d.kv, <<k, v>>))
EmptyDict == D(<<>>)

\* instance attributes: hasattr / getattr / setattr on the instance __dict__
HasAttr(o, a) == a \in DOMAIN o.d
Attr(o, a) == IF HasAttr(o, a) THEN o.d[a] ELSE Err("AttributeError")
SetAttr(o, a, v) == [o EXCEPT !.d = (a :> v) @@ o.d]

\* hasattr(x, 'render'): only objects have methods; every modelled class defines render
HasRender(v) == IsObj(v)

-----------------------------------------------------------------------------
(* Concatenation helpers *)

RECURSIVE Join(_, _)
Join(sep, strs) ==
    IF Len(strs) = 0 THEN ""
    ELSE IF Len(strs) = 1 THEN strs[1]
    ELSE strs[1] \o sep \o Join(sep, Tail(strs))

RECURSIVE Concat(_)
Concat(strs) == IF Len(strs) = 0 THEN "" ELSE strs[1] \o Concat(Tail(strs))

-----------------------------------------------------------------------------
(* str() and repr() of Python values, as used by f-strings and str(x) *)

RECURSIVE PyStr(_), PyRepr(_)
PyStr(v) ==
    CASE v.t = "str" -> v.s
      [] v.t = "none" -> "None"
      [] v.t = "obj" -> "<" \o v.cls \o " object at " \o v.at \o ">"
      [] v.t = "list" -> "[" \o Join(", ", [i \in 1..Len(v.l) |-> PyRepr(v.l[i])]) \o "]"
      [] OTHER -> "{" \o Join(", ", [i \in 1..Len(v.kv) |->
                      "'" \o v.kv[i][1] \o "': " \o PyRepr(v.kv[i][2])]) \o "}"
PyRepr(v) == IF v.t = "str" THEN "'" \o v.s \o "'" ELSE PyStr(v)

Chars(s) == [i \in 1..Len(s) |-> SubSeq(s, i, i)]
Whitespace == {" ", "\t", "\n", "\r", "\f"}

RECURSIVE RStrip(_)
RStrip(s) ==
    IF Len(s) > 0 /\ SubSeq(s, Len(s), Len(s)) \in Whitespace
    THEN RStrip(SubSeq(s, 1, Len(s) - 1))
    ELSE s

EndsWith(s, suffix) ==
    Len(s) >= Len(suffix) /\ SubSeq(s, Len(s) - Len(suffix) + 1, Len(s)) = suffix

-----------------------------------------------------------------------------
(* class Element (elements.py) *)

\* Element.__init__: css_class, id_attr and style only reach the attributes
\* map; they are not stored as instance attributes.
Element_init(cls, at, tag, content, attributes, css_class, id_attr, style, class_name) ==
    LET a0 == IF attributes # None THEN attributes ELSE EmptyDict
        final_class == IF Truthy(class_name) THEN class_name ELSE css_class
        a1 == IF Truthy(final_class) THEN Put(a0, "class", final_class) ELSE a0
        a2 == IF Truthy(id_attr) THEN Put(a1, "id", id_attr) ELSE a1
        a3 == IF Truthy(style) THEN Put(a2, "style", style) ELSE a2
    IN O(cls, at, [tag |-> tag, content |-> content, attributes |-> a3])

set_attribute(o, name, value) ==
    SetAttr(o, "attributes", Put(o.d.attributes, name, value))

add_class(o, css_class) ==
    LET current_class == GetOr(o.d.attributes, "class", S(""))
    IN IF Truthy(current_class)
       THEN SetAttr(o, "attributes",
                Put(o.d.attributes, "class", S(PyStr(current_class) \o " " \o css_class.s)))
       ELSE SetAttr(o, "attributes", Put(o.d.attributes, "class", css_class))

\* variant: the id replaces the whole attribute map
set_id_resetting(o, id_attr) == SetAttr(o, "attributes", D(<< <<"id", id_attr>> >>))

set_id(o, id_attr) == SetAttr(o, "attributes", Put(o.d.attributes, "id", id_attr))

set_style(o, style) == SetAttr(o, "attributes", Put(o.d.attributes, "style", style))

\* variant: the separator is added whatever the current style ends with
add_style_always_separating(o, style) ==
    LET current_style == GetOr(o.d.attributes, "style", S("")).s
    IN SetAttr(o, "attributes",
               Put(o.d.attributes, "style",
                   S((IF current_style # "" THEN current_style \o "; " ELSE "") \o style.s)))

add_style(o, style) ==
    LET current_style == GetOr(o.d.attributes, "style", S("")).s
        cur2 == IF current_style # ""
                THEN IF ~EndsWith(RStrip(current_style), ";")
                     THEN current_style \o "; "
                     ELSE current_style \o " "
                ELSE current_style
    IN SetAttr(o, "attributes", Put(o.d.attributes, "style", S(cur2 \o style.s)))

set_event(o, event, handler) ==
    SetAttr(o, "attributes", Put(o.d.attributes, event, handler))

render_attributes(o) ==
    LET a == o.d.attributes
    IN IF ~Truthy(a) THEN ""
       ELSE " " \o Join(" ", [i \in 1..Len(a.kv) |->
                a.kv[i][1] \o "=\"" \o PyStr(a.kv[i][2]) \o "\""])

\* Element.render; the result is S(html) or Err(exception)
Element_render(o) ==
    LET attrs == render_attributes(o)
        tag == PyStr(o.d.tag)
    IN IF ~HasAttr(o, "content") THEN Err("AttributeError")
       ELSE IF Truthy(o.d.content)
            THEN S("<" \o tag \o attrs \o ">" \o PyStr(o.d.content) \o "</" \o tag \o ">")
            ELSE S("<" \o tag \o attrs \o "></" \o tag \o ">")

-----------------------------------------------------------------------------
(* elements.py: Paragraph, Div, Container *)

Paragraph_init(at, text, css_class, id_attr) ==
    Element_init("Paragraph", at, S("p"), text, None, css_class, id_attr, None, None)

Div_init(at, content, css_class, id_attr) ==
    Element_init("Div", at, S("div"), content, None, css_class, id_attr, None, None)

Container_init(at, content, fluid, css_class, id_attr) ==
    LET c0 == IF fluid THEN "container-fluid" ELSE "container"
        container_class == IF Truthy(css_class) THEN c0 \o " " \o PyStr(css_class) ELSE c0
    IN Element_init("Container", at, S("div"), content, None, S(container_class), id_attr,
                    None, None)

-----------------------------------------------------------------------------
(* forms.py: Form, Input, TextArea, Select, Button *)

Form_init(at, action, method, css_class, id_attr) ==
    LET o0 == Element_init("Form", at, S("form"), S(""), None, css_class, id_attr, None, None)
        o1 == set_attribute(o0, "action", action)
        o2 == set_attribute(o1, "method", method)
    IN SetAttr(o2, "fields", L(<<>>))

Form_add_field(o, field) ==
    IF ~HasAttr(o, "fields") THEN Err("AttributeError")
    ELSE SetAttr(o, "fields", L(Append(o.d.fields.l, field)))

Input_init(at, input_type, name, value, placeholder, required, css_class, id_attr, label) ==
    LET o0 == Element_init("Input", at, S("input"), S(""), None, css_class, id_attr, None, None)
        o1 == set_attribute(o0, "type", input_type)
        o2 == set_attribute(o1, "name", name)
        o3 == IF Truthy(value) THEN set_attribute(o2, "value", value) ELSE o2
        o4 == IF Truthy(placeholder) THEN set_attribute(o3, "placeholder", placeholder) ELSE o3
        o5 == IF required THEN set_attribute(o4, "required", S("required")) ELSE o4
    IN SetAttr(o5, "label", label)

TextArea_init(at, name, value, placeholder, rows, cols, required, css_class, id_attr, label) ==
    LET o0 == Element_init("TextArea", at, S("textarea"), value, None, css_class, id_attr,
                           None, None)
        o1 == set_attribute(o0, "name", name)
        o2 == set_attribute(o1, "rows", S(ToString(rows)))
        o3 == IF cols # 0 THEN set_attribute(o2, "cols", S(ToString(cols))) ELSE o2
        o4 == IF Truthy(placeholder) THEN set_attribute(o3, "placeholder", placeholder) ELSE o3
        o5 == IF required THEN set_attribute(o4, "required", S("required")) ELSE o4
    IN SetAttr(o5, "label", label)

Select_init(at, name, options, multiple, required, css_class, id_attr, label) ==
    LET o0 == Element_init("Select", at, S("select"), S(""), None, css_class, id_attr,
                           None, None)
        o1 == set_attribute(o0, "name", name)
        o2 == IF multiple THEN set_attribute(o1, "multiple", S("multiple")) ELSE o1
        o3 == IF required THEN set_attribute(o2, "required", S("required")) ELSE o2
        o4 == SetAttr(o3, "options", IF options # None THEN options ELSE L(<<>>))
    IN SetAttr(o4, "label", label)

\* str(selected) of a Python bool
BoolStr(b) == IF b THEN "True" ELSE "False"

Select_add_option(o, value, text, selected) ==
    IF ~HasAttr(o, "options") THEN Err("AttributeError")
    ELSE SetAttr(o, "options", L(Append(o.d.options.l,
            D(<< <<"value", value>>, <<"text", text>>,
                 <<"selected", S(BoolStr(selected))>> >>))))

Button_init(at, text, button_type, css_class, id_attr, onclick) ==
    LET default_class == "btn btn-primary"
        button_class == IF Truthy(css_class)
                        THEN default_class \o " " \o PyStr(css_class)
                        ELSE default_class
        o0 == Element_init("Button", at, S("button"), text, None, S(button_class), id_attr,
                           None, None)
        o1 == set_attribute(o0, "type", button_type)
    IN IF Truthy(onclick) THEN set_attribute(o1, "onclick", onclick) ELSE o1

-----------------------------------------------------------------------------
(* page.py: class Heading (not an Element) *)

\* variant: the constructor validates the level, as render does
Heading_init_validating(at, text, level, css_class, id_attr) ==
    IF ~(1 <= level /\ level <= 6) THEN Err("ValueError")
    ELSE O("Heading", at, [text |-> text, level |-> level, css_class |-> css_class,
                           id_attr |-> id_attr])

Heading_init(at, text, level, css_class, id_attr) ==
    O("Heading", at, [text |-> text, level |-> level, css_class |-> css_class,
                      id_attr |-> id_attr])

\* variant: the range test admits level 0
Heading_render_from_zero(o) ==
    IF ~(0 <= o.d.level /\ o.d.level <= 6) THEN Err("ValueError")
    ELSE LET class_attr == IF Truthy(o.d.css_class)
                           THEN " class=\"" \o PyStr(o.d.css_class) \o "\"" ELSE ""
             id_attr == IF Truthy(o.d.id_attr)
                        THEN " id=\"" \o PyStr(o.d.id_attr) \o "\"" ELSE ""
             lv == ToString(o.d.level)
         IN S("<h" \o lv \o class_attr \o id_attr \o ">" \o PyStr(o.d.text) \o "</h" \o lv \o ">")

Heading_render(o) ==
    IF ~(1 <= o.d.level /\ o.d.level <= 6) THEN Err("ValueError")
    ELSE LET class_attr == IF Truthy(o.d.css_class)
                           THEN " class=\"" \o PyStr(o.d.css_class) \o "\"" ELSE ""
             id_attr == IF Truthy(o.d.id_attr)
                        THEN " id=\"" \o PyStr(o.d.id_attr) \o "\"" ELSE ""
             lv == ToString(o.d.level)
         IN S("<h" \o lv \o class_attr \o id_attr \o ">" \o PyStr(o.d.text) \o "</h" \o lv \o ">")

Heading_set_class(o, css_class) == SetAttr(o, "css_class", css_class)

Heading_set_id(o, id_attr) == SetAttr(o, "id_attr", id_attr)

-----------------------------------------------------------------------------
(* render(): dispatch on the class, following the method resolution order.  *)
(* The result is [res |-> S(html) or Err(exception), self |-> the object    *)
(* after the call], because Accordion.render assigns self.content.          *)

ElementRenderClasses ==
    {"Element", "Paragraph", "Div", "Container", "Button", "Row", "Column", "Flex", "Badge"}
ComponentBaseRenderClasses == {"ComponentBase", "Alert", "Modal"}

RECURSIVE render(_), RenderEach(_, _, _, _)

\* one item of such a loop: x.render() if hasattr(x, 'render') else str(x);
\* strict = TRUE calls x.render() on every item (no hasattr test)
RenderItem(x, strict) ==
    IF HasRender(x) THEN render(x)
    ELSE IF strict THEN [res |-> Err("AttributeError"), self |-> x]
    ELSE [res |-> S(PyStr(x)), self |-> x]

\* the text of item i followed by the text of the items after it
JoinRendered(r, sep, rest) ==
    IF IsErr(rest.res) THEN rest
    ELSE [res |-> S(r.res.s \o sep \o rest.res.s), l |-> rest.l]

\* item i rendered to r: the loop stops when it raised
RenderFrom(xs, sep, strict, i, r) ==
    IF IsErr(r.res) THEN [res |-> r.res, l |-> [xs EXCEPT ![i] = r.self]]
    ELSE JoinRendered(r, IF i < Len(xs) THEN sep ELSE "",
                      RenderEach([xs EXCEPT ![i] = r.self], sep, strict, i + 1))

\* for x in xs: acc += x.render() if hasattr(x, 'render') else str(x), joined
\* by sep; the result carries the items as the calls left them
RenderEach(xs, sep, strict, i) ==
    IF i > Len(xs) THEN [res |-> S(""), l |-> xs]
    ELSE RenderFrom(xs, sep, strict, i, RenderItem(xs[i], strict))

\* f"<{tag}{attrs}>{open}{inner}{close}</{tag}>" around the rendered children r
Wrap(o, attr, r, open, close) ==
    [res |-> IF IsErr(r.res) THEN r.res
             ELSE S("<" \o PyStr(o.d.tag) \o render_attributes(o) \o ">" \o open \o r.res.s
                    \o close \o "</" \o PyStr(o.d.tag) \o ">"),
     self |-> SetAttr(o, attr, L(r.l))]

ComponentBase_render(o) ==
    IF ~HasAttr(o, "child_elements") THEN [res |-> Err("AttributeError"), self |-> o]
    ELSE Wrap(o, "child_elements", RenderEach(o.d.child_elements.l, "", FALSE, 1), "", "")

Form_render(o) ==
    IF ~HasAttr(o, "fields") THEN [res |-> Err("AttributeError"), self |-> o]
    ELSE Wrap(o, "fields", RenderEach(o.d.fields.l, "\n", TRUE, 1), "\n", "\n")

\* the optional <label> wrapper shared by Input, TextArea and Select
WithLabel(o, inner) ==
    IF ~HasAttr(o, "label") THEN Err("AttributeError")
    ELSE IF Truthy(o.d.label)
         THEN LET a == o.d.attributes
                  label_for == GetOr(a, "id", GetOr(a, "name", S("")))
              IN S("<div class=\"mb-3\"><label for=\"" \o PyStr(label_for)
                   \o "\" class=\"form-label\">" \o PyStr(o.d.label) \o "</label>\n"
                   \o inner \o "</div>")
         ELSE S(inner)

Input_render(o) ==
    WithLabel(o, "<" \o PyStr(o.d.tag) \o render_attributes(o) \o ">")

TextArea_render(o) ==
    IF ~HasAttr(o, "content") THEN Err("AttributeError")
    ELSE WithLabel(o, "<" \o PyStr(o.d.tag) \o render_attributes(o) \o ">"
                      \o PyStr(o.d.content) \o "</" \o PyStr(o.d.tag) \o ">")

Select_render(o) ==
    IF ~HasAttr(o, "options") THEN Err("AttributeError")
    ELSE LET opts == o.d.options.l
             optHtml(option) ==
                 LET selected_attr ==
                         IF Has(option, "selected") /\ Truthy(Get(option, "selected"))
                         THEN " selected" ELSE ""
                 IN "<option value=\"" \o PyStr(Get(option, "value")) \o "\""
                    \o selected_attr \o ">" \o PyStr(Get(option, "text")) \o "</option>\n"
             options_html == Concat([i \in 1..Len(opts) |-> optHtml(opts[i])])
         IN WithLabel(o, "<" \o PyStr(o.d.tag) \o render_attributes(o) \o ">\n"
                         \o options_html \o "</" \o PyStr(o.d.tag) \o ">")

ProgressBar_render(o) ==
    IF ~HasAttr(o, "content") THEN Err("AttributeError")
    ELSE S("<" \o PyStr(o.d.tag) \o render_attributes(o) \o ">" \o PyStr(o.d.content)
           \o "</" \o PyStr(o.d.tag) \o ">")

\* variant: the joined items are appended to child_elements on every call
Accordion_render_accumulating(o) ==
    IF ~HasAttr(o, "items") \/ ~HasAttr(o, "child_elements")
    THEN [res |-> Err("AttributeError"), self |-> o]
    ELSE ComponentBase_render(
            SetAttr(o, "child_elements",
                    L(Append(o.d.child_elements.l,
                             S(Concat([i \in 1..Len(o.d.items.l) |-> o.d.items.l[i].s]))))))

\* Accordion.render: self.content = "".join(self.items); return super().render()
Accordion_render(o) ==
    IF ~HasAttr(o, "items") THEN [res |-> Err("AttributeError"), self |-> o]
    ELSE ComponentBase_render(
            SetAttr(o, "content", S(Concat([i \in 1..Len(o.d.items.l) |-> o.d.items.l[i].s]))))

render(o) ==
    CASE o.cls \in ElementRenderClasses -> [res |-> Element_render(o), self |-> o]
      [] o.cls \in ComponentBaseRenderClasses -> ComponentBase_render(o)
      [] o.cls = "Form" -> Form_render(o)
      [] o.cls = "Input" -> [res |-> Input_render(o), self |-> o]
      [] o.cls = "TextArea" -> [res |-> TextArea_render(o), self |-> o]
      [] o.cls = "Select" -> [res |-> Select_render(o), self |-> o]
      [] o.cls = "ProgressBar" -> [res |-> ProgressBar_render(o), self |-> o]
      [] o.cls = "Accordion" -> Accordion_render(o)
      [] o.cls = "Heading" -> [res |-> Heading_render(o), self |-> o]

-----------------------------------------------------------------------------
(* Div.add_content / Container.add_content / Column.add_content /           *)
(* Row.add_column / Flex.add_item: self.content += rendered-or-str(content) *)

\* the string a content argument contributes: content.render() or str(content)
Flatten(content) == IF HasRender(content) THEN render(content).res ELSE S(PyStr(content))

\* self.content += piece, for the piece the argument flattened to
AppendPiece(o, piece) ==
    IF IsErr(piece) THEN piece
    ELSE IF IsStr(o.d.content) THEN SetAttr(o, "content", S(o.d.content.s \o piece.s))
    ELSE IF IsList(o.d.content)
         THEN SetAttr(o, "content",
                 L(o.d.content.l \o [i \in 1..Len(piece.s) |-> S(Chars(piece.s)[i])]))
    ELSE Err("TypeError")

AppendContent(o, content) ==
    IF ~HasAttr(o, "content") THEN Err("AttributeError")
    ELSE AppendPiece(o, Flatten(content))

AddContentClasses == {"Div", "Container", "Column"}

\* the content a layout constructor stores: a list argument is flattened at once
RECURSIVE FlattenAll(_, _)

\* piece + rest, unless one of them raised
ConcatPieces(piece, rest) ==
    IF IsErr(piece) THEN piece
    ELSE IF IsErr(rest) THEN rest
    ELSE S(piece.s \o rest.s)

FlattenAll(items, i) ==
    IF i > Len(items) THEN S("")
    ELSE ConcatPieces(Flatten(items[i]), FlattenAll(items, i + 1))

\* self.content = c, unless flattening raised
SetContent(o, c) == IF IsErr(c) THEN c ELSE SetAttr(o, "content", c)

LayoutContent(o, content) ==
    IF IsList(content) THEN SetContent(o, FlattenAll(content.l, 1))
    ELSE SetAttr(o, "content", S(PyStr(content)))

-----------------------------------------------------------------------------
(* layout.py: Row, Column, Flex *)

Row_init(at, content, css_class, id_attr) ==
    LET row_class == IF Truthy(css_class) THEN "row " \o PyStr(css_class) ELSE "row"
    IN LayoutContent(
         Element_init("Row", at, S("div"), S(""), None, S(row_class), id_attr, None, None),
         content)

\* width is None or a str/int already converted to text by the f-string
Column_init(at, content, width, css_class, id_attr) ==
    LET c0 == IF width = None THEN "col" ELSE "col-" \o PyStr(width)
        col_class == IF Truthy(css_class) THEN c0 \o " " \o PyStr(css_class) ELSE c0
    IN LayoutContent(
         Element_init("Column", at, S("div"), S(""), None, S(col_class), id_attr, None, None),
         content)

justify_class_map ==
    D(<< <<"start", S("justify-content-start")>>, <<"end", S("justify-content-end")>>,
         <<"center", S("justify-content-center")>>, <<"between", S("justify-content-between")>>,
         <<"around", S("justify-content-around")>>, <<"evenly", S("justify-content-evenly")>> >>)

align_class_map ==
    D(<< <<"start", S("align-items-start")>>, <<"end", S("align-items-end")>>,
         <<"center", S("align-items-center")>>, <<"baseline", S("align-items-baseline")>>,
         <<"stretch", S("align-items-stretch")>> >>)

Flex_init(at, content, direction, justify, align, wrap, css_class, id_attr) ==
    LET f0 == "d-flex"
        f1 == CASE direction = "column" -> f0 \o " flex-column"
                [] direction = "row-reverse" -> f0 \o " flex-row-reverse"
                [] direction = "column-reverse" -> f0 \o " flex-column-reverse"
                [] OTHER -> f0
        f2 == IF Truthy(justify) /\ Has(justify_class_map, justify.s)
              THEN f1 \o " " \o Get(justify_class_map, justify.s).s ELSE f1
        f3 == IF Truthy(align) /\ Has(align_class_map, align.s)
              THEN f2 \o " " \o Get(align_class_map, align.s).s ELSE f2
        f4 == IF wrap THEN f3 \o " flex-wrap" ELSE f3
        flex_class == IF Truthy(css_class) THEN f4 \o " " \o PyStr(css_class) ELSE f4
    IN LayoutContent(
         Element_init("Flex", at, S("div"), S(""), None, S(flex_class), id_attr, None, None),
         content)

-----------------------------------------------------------------------------
(* components.py: ComponentBase, Alert, Badge, ProgressBar, Accordion, Modal *)

ComponentBase_init(cls, at, tag, css_class, id_attr, style) ==
    SetAttr(Element_init(cls, at, tag, S(""), None, css_class, id_attr, style, None),
            "child_elements", L(<<>>))

ComponentBase_add_element(o, element) ==
    IF ~HasAttr(o, "child_elements") THEN Err("AttributeError")
    ELSE SetAttr(o, "child_elements", L(Append(o.d.child_elements.l, element)))

Alert_init(at, message, alert_type, dismissible, css_class) ==
    LET a0 == "alert alert-" \o alert_type
        a1 == IF dismissible THEN a0 \o " alert-dismissible fade show" ELSE a0
        alert_class == IF Truthy(css_class) THEN a1 \o " " \o PyStr(css_class) ELSE a1
        alert_html == IF dismissible
                      THEN message.s \o
                           "<button type=\"button\" class=\"btn-close\" data-bs-dismiss=\"alert\"></button>"
                      ELSE message.s
    IN SetAttr(ComponentBase_init("Alert", at, S("div"), S(alert_class), None, None),
               "content", S(alert_html))

Badge_init(at, text, badge_type, css_class) ==
    LET b0 == "badge bg-" \o badge_type
        badge_class == IF Truthy(css_class) THEN b0 \o " " \o PyStr(css_class) ELSE b0
    IN Element_init("Badge", at, S("span"), text, None, S(badge_class), None, None, None)

\* str((value / max_value) * 100) for the inputs of the model, where the
\* quotient is exact: an integral float prints with a trailing ".0"
Percentage(value, max_value) == ToString((value * 100) \div max_value) \o ".0"

ProgressBar_init(at, value, max_value, label, bar_type, striped, animated, css_class) ==
    IF max_value = 0 THEN Err("ZeroDivisionError")
    ELSE
    LET progress_class == IF Truthy(css_class) THEN "progress " \o PyStr(css_class)
                          ELSE "progress"
        b0 == "progress-bar bg-" \o bar_type
        b1 == IF striped THEN b0 \o " progress-bar-striped" ELSE b0
        bar_class == IF animated THEN b1 \o " progress-bar-animated" ELSE b1
        progress_html ==
            "<div class=\"" \o bar_class \o "\" role=\"progressbar\" style=\"width: "
            \o Percentage(value, max_value) \o "%\" aria-valuenow=\"" \o ToString(value)
            \o "\" aria-valuemin=\"0\" aria-valuemax=\"" \o ToString(max_value) \o "\">"
            \o label \o "</div>"
    IN SetAttr(ComponentBase_init("ProgressBar", at, S("div"), S(progress_class), None, None),
               "content", S(progress_html))

Accordion_init(at, accordion_id, css_class) ==
    LET accordion_class == IF Truthy(css_class) THEN "accordion " \o PyStr(css_class)
                           ELSE "accordion"
        o0 == ComponentBase_init("Accordion", at, S("div"), S(accordion_class), None, None)
        o1 == set_id(o0, accordion_id)
        o2 == SetAttr(o1, "accordion_id", accordion_id)
    IN SetAttr(o2, "items", L(<<>>))

Accordion_add_item(o, title, content, expanded) ==
    IF ~HasAttr(o, "accordion_id") \/ ~HasAttr(o, "items") THEN Err("AttributeError")
    ELSE
    LET aid == PyStr(o.d.accordion_id)
        n == ToString(Len(o.d.items.l))
        item_id == aid \o "-item-" \o n
        collapse_id == aid \o "-collapse-" \o n
        item_html ==
            "\n        <div class=\"accordion-item\">\n"
            \o "            <h2 class=\"accordion-header\" id=\"" \o item_id \o "\">\n"
            \o "                <button class=\"accordion-button"
            \o (IF ~expanded THEN "collapsed" ELSE "") \o "\" \n"
            \o "                        type=\"button\" \n"
            \o "                        data-bs-toggle=\"collapse\" \n"
            \o "                        data-bs-target=\"#" \o collapse_id \o "\">\n"
            \o "                    " \o title \o "\n"
            \o "                </button>\n"
            \o "            </h2>\n"
            \o "            <div id=\"" \o collapse_id \o "\" \n"
            \o "                 class=\"accordion-collapse collapse"
            \o (IF expanded THEN " show" ELSE "") \o "\" \n"
            \o "                 data-bs-parent=\"#" \o aid \o "\">\n"
            \o "                <div class=\"accordion-body\">\n"
            \o "                    " \o content \o "\n"
            \o "                </div>\n"
            \o "            </div>\n"
            \o "        </div>\n"
            \o "        "
    IN SetAttr(o, "items", L(Append(o.d.items.l, S(item_html))))

Modal_init(at, modal_id, title, body, footer, size, css_class) ==
    LET modal_class == IF Truthy(css_class) THEN "modal fade " \o PyStr(css_class)
                       ELSE "modal fade"
        o0 == ComponentBase_init("Modal", at, S("div"), S(modal_class), None, None)
        o1 == set_id(o0, modal_id)
        dialog_class == IF size # "" THEN "modal-dialog modal-" \o size ELSE "modal-dialog"
        m0 == "\n        <div class=\"" \o dialog_class \o "\">\n"
              \o "            <div class=\"modal-content\">\n"
              \o "                <div class=\"modal-header\">\n"
              \o "                    <h5 class=\"modal-title\">" \o title \o "</h5>\n"
              \o "                    <button type=\"button\" class=\"btn-close\" data-bs-dismiss=\"modal\"></button>\n"
              \o "                </div>\n"
              \o "                <div class=\"modal-body\">\n"
              \o "                    " \o body \o "\n"
              \o "                </div>\n"
              \o "        "
        m1 == IF footer # "" THEN m0 \o "<div class=\"modal-footer\">" \o footer \o "</div>"
              ELSE m0
        modal_html == m1 \o "\n            </div>\n        </div>\n        "
    IN SetAttr(o1, "content", S(modal_html))

-----------------------------------------------------------------------------
(* String search *)

\* positions at which sub occurs in s
Occurrences(sub, s) ==
    {i \in 1..(Len(s) - Len(sub) + 1) : SubSeq(s, i, i + Len(sub) - 1) = sub}
Contains(s, sub) == Occurrences(sub, s) # {}
Count(sub, s) == Cardinality(Occurrences(sub, s))
\* position of the first occurrence (0 when there is none)
IndexOf(sub, s) ==
    IF Contains(s, sub)
    THEN CHOOSE i \in Occurrences(sub, s) : \A j \in Occurrences(sub, s) : i <= j
    ELSE 0

UpperCase == <<"A","B","C","D","E","F","G","H","I","J","K","L","M",
               "N","O","P","Q","R","S","T","U","V","W","X","Y","Z">>
LowerCase == <<"a","b","c","d","e","f","g","h","i","j","k","l","m",
               "n","o","p","q","r","s","t","u","v","w","x","y","z">>
LowerChar(c) ==
    IF \E i \in 1..26 : UpperCase[i] = c
    THEN LowerCase[CHOOSE i \in 1..26 : UpperCase[i] = c]
    ELSE c
\* str.lower()
Lower(s) == Concat([i \in 1..Len(s) |-> LowerChar(SubSeq(s, i, i))])

-----------------------------------------------------------------------------
(* page.py: class Page *)

BootstrapDarkCss == "https://cdn.replit.com/agent/bootstrap-agent-dark-theme.min.css"
BootstrapJs == "https://cdn.jsdelivr.net/npm/bootstrap@5.3.0/dist/js/bootstrap.bundle.min.js"
BootstrapLightCss == "https://cdn.jsdelivr.net/npm/bootstrap@5.3.0/dist/css/bootstrap.min.css"
TailwindCss == "https://cdn.tailwindcss.com"
BulmaCss == "https://cdn.jsdelivr.net/npm/bulma@0.9.4/css/bulma.min.css"
MaterialIconsCss == "https://fonts.googleapis.com/icon?family=Material+Icons"
MaterializeCss == "https://cdnjs.cloudflare.com/ajax/libs/materialize/1.0.0/css/materialize.min.css"
MaterializeJs == "https://cdnjs.cloudflare.com/ajax/libs/materialize/1.0.0/js/materialize.min.js"

add_meta_tag(p, name, content) == SetAttr(p, "meta_tags", Put(p.d.meta_tags, name, content))

add_css_link(p, href) == SetAttr(p, "css_links", L(Append(p.d.css_links.l, S(href))))

add_script(p, src) == SetAttr(p, "scripts", L(Append(p.d.scripts.l, S(src))))

add_body_class(p, class_name) ==
    SetAttr(p, "body_classes", L(Append(p.d.body_classes.l, S(class_name))))

set_container_class(p, class_name) == SetAttr(p, "container_class", S(class_name))

add_navbar(p, nav_links) == SetAttr(p, "nav_links", L(p.d.nav_links.l \o nav_links))

\* the brand icon of the default navbar_config is U+1F31F; it is written "*" here
DefaultNavbarConfig ==
    [brand |-> [name |-> "NexusLabs", icon |-> "*"], style |-> "modern",
     dropdown_support |-> TRUE, mobile_responsive |-> TRUE]

\* brand_name / brand_icon are None or S(text)
configure_navbar(p, brand_name, brand_icon, style, dropdown_support, mobile_responsive) ==
    SetAttr(p, "navbar_config",
        [brand |-> [name |-> IF brand_name # None THEN brand_name.s
                             ELSE p.d.navbar_config.brand.name,
                    icon |-> IF brand_icon # None THEN brand_icon.s
                             ELSE p.d.navbar_config.brand.icon],
         style |-> style, dropdown_support |-> dropdown_support,
         mobile_responsive |-> mobile_responsive])

Page_init(at, title, header_text, logo_url, nav_links, header_class, css_framework, custom_css, use_modern_navbar) ==
    LET p0 == O("Page", at,
                [title |-> title, header_text |-> header_text, logo_url |-> logo_url,
                 nav_links |-> IF nav_links # None THEN nav_links ELSE L(<<>>),
                 header_class |-> header_class, body_content |-> L(<<>>),
                 css_framework |-> css_framework, custom_css |-> custom_css,
                 meta_tags |-> EmptyDict, scripts |-> L(<<>>), css_links |-> L(<<>>),
                 body_classes |-> L(<<>>), container_class |-> S("container"),
                 use_modern_navbar |-> use_modern_navbar,
                 navbar_config |-> DefaultNavbarConfig, template_manager |-> None])
    IN IF css_framework = "bootstrap"
       THEN add_script(add_css_link(p0, BootstrapDarkCss), BootstrapJs)
       ELSE p0

\* the add_css_link / add_script calls set_theme makes for a theme name
ThemeCssLinks(theme) ==
    CASE theme = "bootstrap" -> <<BootstrapDarkCss>>
      [] theme = "bootstrap-light" -> <<BootstrapLightCss>>
      [] theme = "tailwind" -> <<TailwindCss>>
      [] theme = "bulma" -> <<BulmaCss>>
      [] theme = "material" -> <<MaterialIconsCss, MaterializeCss>>
      [] OTHER -> <<>>
ThemeScripts(theme) == IF theme = "material" THEN <<MaterializeJs>> ELSE <<>>

RECURSIVE AddCssLinks(_, _), AddScripts(_, _)
AddCssLinks(p, xs) == IF Len(xs) = 0 THEN p ELSE AddCssLinks(add_css_link(p, xs[1]), Tail(xs))
AddScripts(p, xs) == IF Len(xs) = 0 THEN p ELSE AddScripts(add_script(p, xs[1]), Tail(xs))

set_theme(p, theme) ==
    LET NotBootstrap(link) == ~Contains(Lower(link.s), "bootstrap")
        p1 == SetAttr(p, "css_links", L(SelectSeq(p.d.css_links.l, NotBootstrap)))
    IN AddScripts(AddCssLinks(p1, ThemeCssLinks(theme)), ThemeScripts(theme))

\* Page.add_content / Page.add_element: the rendered string is stored.
\* The result is [page, arg]: the page after the call (or Err) and the
\* argument after its render() was called.
\* variant: the new fragment replaces the fragments stored so far
StoreFragment_replacing(p, r) ==
    [page |-> IF IsErr(r.res) THEN r.res ELSE SetAttr(p, "body_content", L(<<r.res>>)),
     arg |-> r.self]

StoreFragment(p, r) ==
    [page |-> IF IsErr(r.res) THEN r.res
              ELSE SetAttr(p, "body_content", L(Append(p.d.body_content.l, r.res))),
     arg |-> r.self]

Page_add_content(p, content) ==
    IF HasRender(content) THEN StoreFragment(p, render(content))
    ELSE StoreFragment(p, [res |-> S(PyStr(content)), self |-> content])

add_element(p, element) == Page_add_content(p, element)

render_meta_tags(p) ==
    Concat([i \in 1..Len(p.d.meta_tags.kv) |->
        "    <meta name=\"" \o p.d.meta_tags.kv[i][1] \o "\" content=\""
        \o PyStr(p.d.meta_tags.kv[i][2]) \o "\">\n"])

\* variant: the links are listed last added first
render_css_links_reversed(p) ==
    Concat([i \in 1..Len(p.d.css_links.l) |->
        "    <link rel=\"stylesheet\" href=\""
        \o PyStr(p.d.css_links.l[Len(p.d.css_links.l) + 1 - i]) \o "\">\n"])

render_css_links(p) ==
    Concat([i \in 1..Len(p.d.css_links.l) |->
        "    <link rel=\"stylesheet\" href=\"" \o PyStr(p.d.css_links.l[i]) \o "\">\n"])

\* variant: the scripts are listed last added first
render_scripts_reversed(p) ==
    Concat([i \in 1..Len(p.d.scripts.l) |->
        "    <script src=\"" \o PyStr(p.d.scripts.l[Len(p.d.scripts.l) + 1 - i])
        \o "\"></script>\n"])

render_scripts(p) ==
    Concat([i \in 1..Len(p.d.scripts.l) |->
        "    <script src=\"" \o PyStr(p.d.scripts.l[i]) \o "\"></script>\n"])

\* U+25BC, the dropdown marker of render_modern_navbar
DownArrow == "v"

render_basic_navbar(p) ==
    LET item(link) ==
            IF IsDict(link)
            THEN "<li class=\"nav-item\"><a class=\"nav-link text-light\" href=\""
                 \o PyStr(GetOr(link, "url", S("#"))) \o "\">"
                 \o PyStr(GetOr(link, "text", S("Link"))) \o "</a></li>"
            ELSE "<li class=\"nav-item\"><a class=\"nav-link text-light\" href=\""
                 \o PyStr(link) \o "\">" \o PyStr(link) \o "</a></li>"
        nav_items == Concat([i \in 1..Len(p.d.nav_links.l) |-> item(p.d.nav_links.l[i])])
    IN "\n"
        \o "        <nav class=\"navbar-nav\">\n"
        \o "            <ul class=\"nav\">\n"
        \o "                " \o nav_items \o "\n"
        \o "            </ul>\n"
        \o "        </nav>\n"
        \o "        "

render_modern_navbar(p) ==
    LET brand == p.d.navbar_config.brand
        dropdownItem(item) ==
            "\n"
            \o "                        <li class=\"dropdown-item\">\n"
            \o "                            <a href=\"" \o PyStr(GetOr(item, "url", S("#")))
            \o "\" class=\"dropdown-link\">" \o PyStr(GetOr(item, "text", S("Item")))
            \o "</a>\n"
            \o "                        </li>"
        navItem(link) ==
            IF IsDict(link)
            THEN IF Has(link, "dropdown")
                 THEN LET dd == Get(link, "dropdown").l
                          dropdown_items == Concat([j \in 1..Len(dd) |-> dropdownItem(dd[j])])
                      IN "\n"
                         \o "                    <li class=\"nav-item\">\n"
                         \o "                        <a href=\""
                         \o PyStr(GetOr(link, "url", S("#")))
                         \o "\" class=\"nav-link\">\n"
                         \o "                            "
                         \o PyStr(GetOr(link, "text", S("Link"))) \o "\n"
                         \o "                            <i>" \o DownArrow \o "</i>\n"
                         \o "                        </a>\n"
                         \o "                        <ul class=\"dropdown-menu\">\n"
                         \o "                            " \o dropdown_items \o "\n"
                         \o "                        </ul>\n"
                         \o "                    </li>"
                 ELSE "\n"
                      \o "                    <li class=\"nav-item\">\n"
                      \o "                        <a href=\""
                      \o PyStr(GetOr(link, "url", S("#")))
                      \o "\" class=\"nav-link\">" \o PyStr(GetOr(link, "text", S("Link")))
                      \o "</a>\n"
                      \o "                    </li>"
            ELSE "\n"
                 \o "                <li class=\"nav-item\">\n"
                 \o "                    <a href=\"#\" class=\"nav-link\">" \o PyStr(link)
                 \o "</a>\n"
                 \o "                </li>"
        nav_items == Concat([i \in 1..Len(p.d.nav_links.l) |-> navItem(p.d.nav_links.l[i])])
    IN "\n"
        \o "        <nav class=\"navbar\">\n"
        \o "            <div class=\"nav-container\">\n"
        \o "                <a href=\"#\" class=\"logo\">\n"
        \o "                    <span class=\"logo-icon\">" \o brand.icon \o "</span>\n"
        \o "                    <span>" \o brand.name \o "</span>\n"
        \o "                </a>\n"
        \o "\n"
        \o "                <button class=\"hamburger\">\n"
        \o "                    <span></span>\n"
        \o "                    <span></span>\n"
        \o "                    <span></span>\n"
        \o "                    <span></span>\n"
        \o "                </button>\n"
        \o "\n"
        \o "                <ul class=\"nav-links\">\n"
        \o "                    " \o nav_items \o "\n"
        \o "                    <li class=\"nav-item\">\n"
        \o "                        <button class=\"nav-btn\">Get Started</button>\n"
        \o "                    </li>\n"
        \o "                </ul>\n"
        \o "            </div>\n"
        \o "        </nav>"

render_navbar(p) ==
    IF ~Truthy(p.d.nav_links) /\ ~p.d.use_modern_navbar THEN ""
    ELSE IF p.d.use_modern_navbar THEN render_modern_navbar(p)
    ELSE render_basic_navbar(p)

render_header(p) ==
    LET logo_html == IF Truthy(p.d.logo_url)
                     THEN "<img src=\"" \o PyStr(p.d.logo_url)
                          \o "\" alt=\"Logo\" class=\"logo me-3\" style=\"height: 40px;\">"
                     ELSE ""
        header_class_attr == IF Truthy(p.d.header_class)
                             THEN " class=\"" \o PyStr(p.d.header_class) \o "\""
                             ELSE " class=\"bg-dark text-light py-3\""
    IN "\n"
        \o "        <header" \o header_class_attr \o ">\n"
        \o "            <div class=\"container\">\n"
        \o "                <div class=\"d-flex align-items-center justify-content-between\">\n"
        \o "                    <div class=\"d-flex align-items-center\">\n"
        \o "                        " \o logo_html \o "\n"
        \o "                        <h1 class=\"h3 mb-0\">" \o PyStr(p.d.header_text) \o "</h1>\n"
        \o "                    </div>\n"
        \o "                    " \o render_navbar(p) \o "\n"
        \o "                </div>\n"
        \o "            </div>\n"
        \o "        </header>\n"
        \o "        "

\* The stylesheet and script literals of the modern navbar.  Both are fixed
\* texts that no operation inspects; only their first rule / statement is
\* written out here.
get_modern_navbar_css ==
    "\n        * {\n            margin: 0;\n            padding: 0;\n"
    \o "            box-sizing: border-box;\n        }\n        "

get_modern_navbar_js ==
    "\n        // Mobile menu toggle and scroll effect\n"
    \o "        const navbar = document.querySelector('.navbar');\n        "

\* Page.generate_html
generate_html(p) ==
    LET bc == p.d.body_classes.l
        body_class_attr == IF Truthy(p.d.body_classes)
                           THEN " class=\"" \o Join(" ", [i \in 1..Len(bc) |-> bc[i].s]) \o "\""
                           ELSE ""
        frags == p.d.body_content.l
        body == Join("\n", [i \in 1..Len(frags) |-> frags[i].s])
        css0 == IF p.d.use_modern_navbar THEN get_modern_navbar_css ELSE ""
        all_css == IF Truthy(p.d.custom_css) THEN css0 \o "\n" \o PyStr(p.d.custom_css) ELSE css0
        custom_css_tag == IF all_css # "" THEN "<style>\n" \o all_css \o "\n    </style>" ELSE ""
        navbar_js == IF p.d.use_modern_navbar
                     THEN "<script>\n" \o get_modern_navbar_js \o "\n    </script>"
                     ELSE ""
    IN "<!DOCTYPE html>\n"
        \o "<html lang=\"en\" data-bs-theme=\"dark\">\n"
        \o "<head>\n"
        \o "    <meta charset=\"UTF-8\">\n"
        \o "    <meta name=\"viewport\" content=\"width=device-width, initial-scale=1.0\">\n"
        \o "    <title>" \o PyStr(p.d.title) \o "</title>\n"
        \o render_meta_tags(p) \o render_css_links(p) \o "    " \o custom_css_tag \o "\n"
        \o "</head>\n"
        \o "<body" \o body_class_attr \o ">\n"
        \o "    " \o render_header(p) \o "\n"
        \o "    <main class=\"" \o PyStr(p.d.container_class) \o " mt-4\">\n"
        \o "        " \o body \o "\n"
        \o "    </main>\n"
        \o render_scripts(p) \o "    " \o navbar_js \o "\n"
        \o "</body>\n"
        \o "</html>"

-----------------------------------------------------------------------------
(* plugins.py: PluginRegistry *)

\* PluginRegistry.register_component: self.components[name] = component_class
PluginRegistry_register_component(registry, name, component_class) ==
    Put(registry, name, S(component_class))

\* the decorator register_component(name)(cls): the class is registered under
\* the given name, or under its own name when none is given
register_component(registry, name, cls) ==
    PluginRegistry_register_component(registry, IF Truthy(name) THEN name.s ELSE cls, cls)

\* PluginRegistry.get_component
get_component(registry, name) == GetOr(registry, name, None)

\* the registry once the package is imported: plugins.py registers its three
\* components at import
BuiltinComponents ==
    register_component(register_component(register_component(EmptyDict,
        S("Timeline"), "Timeline"), S("StatCard"), "StatCard"), S("CodeBlock"), "CodeBlock")

\* a callback, known by its name
Callback(name) == [t |-> "callable", name |-> name]

\* hook(*args, **kwargs) for the callbacks of the model: the value returned,
\* or str(e) of the exception raised and whether that exception is outside
\* the Exception hierarchy (KeyboardInterrupt, SystemExit)
call(hook) ==
    CASE hook.name = "greet" -> [raised |-> None, base |-> FALSE, value |-> S("hello")]
      [] hook.name = "nothing" -> [raised |-> None, base |-> FALSE, value |-> None]
      [] hook.name = "fail" -> [raised |-> S("boom"), base |-> FALSE, value |-> None]
      [] hook.name = "interrupt" -> [raised |-> S("stop"), base |-> TRUE, value |-> None]

\* PluginRegistry.register_hook
register_hook(registry, event, callback) ==
    Put(registry, event, L(Append(GetOr(registry, event, L(<<>>)).l, callback)))

RECURSIVE RunHooks(_, _, _, _)

\* variant: the loop ends at the first hook that raises
HookCalled_stopping(hs, event, i, acc, r) ==
    IF r.raised = None
    THEN RunHooks(hs, event, i + 1,
                  [acc EXCEPT !.called = Append(@, hs[i]), !.results = Append(@, r.value)])
    ELSE IF r.base
    THEN [acc EXCEPT !.called = Append(@, hs[i]), !.raised = r.raised]
    ELSE [acc EXCEPT !.called = Append(@, hs[i]),
                     !.printed = Append(@, "Hook execution error for " \o event \o ": "
                                           \o r.raised.s)]

\* one turn of the loop of execute_hooks, hs[i] having been called with
\* outcome r: the result is appended, or the exception is printed (except
\* Exception), or it leaves execute_hooks
HookCalled(hs, event, i, acc, r) ==
    IF r.raised = None
    THEN RunHooks(hs, event, i + 1,
                  [acc EXCEPT !.called = Append(@, hs[i]), !.results = Append(@, r.value)])
    ELSE IF r.base
    THEN [acc EXCEPT !.called = Append(@, hs[i]), !.raised = r.raised]
    ELSE RunHooks(hs, event, i + 1,
                  [acc EXCEPT !.called = Append(@, hs[i]),
                              !.printed = Append(@, "Hook execution error for " \o event \o ": "
                                                    \o r.raised.s)])

\* for hook in hs: ...
RunHooks(hs, event, i, acc) ==
    IF i > Len(hs) THEN acc ELSE HookCalled(hs, event, i, acc, call(hs[i]))

\* PluginRegistry.execute_hooks: the hooks called, the lines printed, and
\* either the list returned (raised = None) or the exception that left the call
execute_hooks(registry, event) ==
    RunHooks(GetOr(registry, event, L(<<>>)).l, event, 1,
             [results |-> <<>>, called |-> <<>>, printed |-> <<>>, raised |-> None])

-----------------------------------------------------------------------------
(* export_tools.py: ExportManager *)

\* the classes for which isinstance(x, Element) holds
ElementClasses ==
    {"Element", "Container", "Div", "Paragraph", "Form", "Input", "Button", "TextArea",
     "Select", "Row", "Column", "Flex", "Alert", "Badge", "ProgressBar", "Accordion",
     "Modal", "ComponentBase"}

\* the keys of class_map in _dict_to_element
class_map ==
    {"Element", "Container", "Div", "Paragraph", "Form", "Input", "Button", "TextArea",
     "Select", "Row", "Column", "Flex", "Alert", "Badge", "ProgressBar", "Accordion",
     "Modal"}

RECURSIVE _element_to_dict(_), ElementsToDicts(_, _, _)

\* [h] + rest, unless one of them raised
Cons(h, rest) ==
    IF IsErr(h) THEN h
    ELSE IF IsErr(rest) THEN rest
    ELSE L(<<h>> \o rest.l)

\* [_element_to_dict(x) if hasattr(x, 'render') else str(x) for x in xs];
\* strict = TRUE converts every item with _element_to_dict
ElementsToDicts(xs, strict, i) ==
    IF i > Len(xs) THEN L(<<>>)
    ELSE Cons(IF strict \/ HasRender(xs[i]) THEN _element_to_dict(xs[i])
              ELSE S(PyStr(xs[i])),
              ElementsToDicts(xs, strict, i + 1))

\* data[key] = value when the element has the attribute (value is NoResult
\* when it has not); an exception raised while converting it propagates
SetKey(data, key, value) ==
    IF IsErr(data) THEN data
    ELSE IF value = NoResult THEN data
    ELSE IF IsErr(value) THEN value
    ELSE Put(data, key, value)

\* variant: an empty content is left out of the mapping
ContentToDict_omitting_empty(element) ==
    IF ~HasAttr(element, "content") THEN NoResult
    ELSE IF IsList(element.d.content) THEN ElementsToDicts(element.d.content.l, FALSE, 1)
    ELSE IF HasRender(element.d.content) THEN _element_to_dict(element.d.content)
    ELSE IF ~Truthy(element.d.content) THEN NoResult
    ELSE S(PyStr(element.d.content))

\* the conversion of element.content
ContentToDict(element) ==
    IF ~HasAttr(element, "content") THEN NoResult
    ELSE IF IsList(element.d.content) THEN ElementsToDicts(element.d.content.l, FALSE, 1)
    ELSE IF HasRender(element.d.content) THEN _element_to_dict(element.d.content)
    ELSE S(PyStr(element.d.content))

\* the conversion of the list attribute attr
ListToDicts(element, attr, strict) ==
    IF ~HasAttr(element, attr) THEN NoResult
    ELSE ElementsToDicts(element.d[attr].l, strict, 1)

_element_to_dict(element) ==
    IF ~IsObj(element) THEN Err("AttributeError")
    ELSE IF \E a \in {"tag", "css_class", "id_attr", "style"} : ~HasAttr(element, a)
    THEN Err("AttributeError")
    ELSE
    SetKey(SetKey(SetKey(SetKey(
        D(<< <<"type", S("Element")>>,
             <<"class_name", S(element.cls)>>,
             <<"tag", element.d.tag>>,
             <<"css_class", element.d.css_class>>,
             <<"id_attr", element.d.id_attr>>,
             <<"style", element.d.style>>,
             <<"attributes", IF HasAttr(element, "attributes")
                             THEN element.d.attributes ELSE EmptyDict>> >>),
        "content", ContentToDict(element)),
        "child_elements", ListToDicts(element, "child_elements", FALSE)),
        "fields", ListToDicts(element, "fields", TRUE)),
        "columns", ListToDicts(element, "columns", TRUE))

\* Page has no attribute `content` (its fragments live in body_content), nor
\* current_theme, custom_js or navbar
PageDict(page_, content) ==
    IF IsErr(content) THEN content
    ELSE D(<< <<"type", S("Page")>>,
              <<"title", page_.d.title>>,
              <<"header_text", page_.d.header_text>>,
              <<"logo_url", IF HasAttr(page_, "logo_url") THEN page_.d.logo_url ELSE None>>,
              <<"theme", IF HasAttr(page_, "current_theme") THEN page_.d.current_theme
                         ELSE S("bootstrap")>>,
              <<"content", content>>,
              <<"custom_css", IF HasAttr(page_, "custom_css") THEN page_.d.custom_css
                              ELSE L(<<>>)>>,
              <<"custom_js", IF HasAttr(page_, "custom_js") THEN page_.d.custom_js
                             ELSE L(<<>>)>>,
              <<"meta_tags", IF HasAttr(page_, "meta_tags") THEN page_.d.meta_tags
                             ELSE EmptyDict>>,
              <<"navbar", IF HasAttr(page_, "navbar") /\ Truthy(page_.d.navbar)
                          THEN _element_to_dict(page_.d.navbar) ELSE None>> >>)

_page_to_dict(page_) ==
    IF ~HasAttr(page_, "content") THEN Err("AttributeError")
    ELSE PageDict(page_, ElementsToDicts(page_.d.content.l, TRUE, 1))

\* variant: anything that has a render method is taken for an Element
to_dict_duck_typed(element) ==
    IF IsObj(element) /\ element.cls = "Page" THEN _page_to_dict(element)
    ELSE IF HasRender(element) THEN _element_to_dict(element)
    ELSE Err("TypeError")

to_dict(element) ==
    IF IsObj(element) /\ element.cls = "Page" THEN _page_to_dict(element)
    ELSE IF IsObj(element) /\ element.cls \in ElementClasses THEN _element_to_dict(element)
    ELSE Err("TypeError")

\* variant: the registry lookup falls back on Div
ElementClass_default_Div(class_name) ==
    IF IsStr(class_name) /\ class_name.s \in class_map THEN class_name.s ELSE "Div"

\* variant: a name the plugin registry knows is reconstructed as the
\* registered class
ElementClass_from_registry(class_name) ==
    IF IsStr(class_name) /\ Has(components, class_name.s)
    THEN Get(components, class_name.s).s
    ELSE IF IsStr(class_name) /\ class_name.s \in class_map THEN class_name.s
    ELSE "Element"

\* ElementClass = class_map.get(class_name, Element)
ElementClass(class_name) ==
    IF IsStr(class_name) /\ class_name.s \in class_map THEN class_name.s ELSE "Element"

RECURSIVE _dict_to_element(_, _), DictsToElements(_, _, _, _)

\* [_dict_to_element(x) if isinstance(x, dict) else str(x) for x in xs];
\* strict = TRUE converts every item with _dict_to_element.  Each new object
\* gets an address of its own, derived from its parent's.
DictsToElements(xs, strict, at, i) ==
    IF i > Len(xs) THEN L(<<>>)
    ELSE Cons(IF IsDict(xs[i]) THEN _dict_to_element(xs[i], at \o "." \o ToString(i))
              ELSE IF strict THEN Err("AttributeError")
              ELSE S(PyStr(xs[i])),
              DictsToElements(xs, strict, at, i + 1))

\* element.<attr> = value when the mapping has the key (value is NoResult
\* when it has not); an exception raised while converting it propagates
SetField(element, attr, value) ==
    IF IsErr(element) THEN element
    ELSE IF value = NoResult THEN element
    ELSE IF IsErr(value) THEN value
    ELSE SetAttr(element, attr, value)

\* the conversion of data['content']
ContentFromDict(c, at) ==
    IF IsList(c) THEN DictsToElements(c.l, FALSE, at, 1)
    ELSE IF IsDict(c) THEN _dict_to_element(c, at)
    ELSE S(PyStr(c))

\* the conversion of the list data[key]
ListFromDicts(data, key, strict, at) ==
    IF ~Has(data, key) THEN NoResult
    ELSE DictsToElements(Get(data, key).l, strict, at, 1)

_dict_to_element(data, at) ==
    SetField(SetField(SetField(SetField(
        O(ElementClass(GetOr(data, "class_name", S("Element"))), at,
          [tag |-> GetOr(data, "tag", S("div")),
           css_class |-> GetOr(data, "css_class", None),
           id_attr |-> GetOr(data, "id_attr", None),
           style |-> GetOr(data, "style", None),
           attributes |-> GetOr(data, "attributes", EmptyDict)]),
        "content", IF Has(data, "content") THEN ContentFromDict(Get(data, "content"), at \o ".c")
                   ELSE NoResult),
        "child_elements", ListFromDicts(data, "child_elements", FALSE, at \o ".e")),
        "fields", ListFromDicts(data, "fields", TRUE, at \o ".f")),
        "columns", ListFromDicts(data, "columns", TRUE, at \o ".k"))

\* page.add_content(e), unless building e raised
AddReconstructed(p, e) == IF IsErr(e) THEN e ELSE Page_add_content(p, e).page

\* for x in xs: page.add_content(_dict_to_element(x) if isinstance(x, dict) else str(x))
RECURSIVE AddContents(_, _, _)
AddContents(p, xs, i) ==
    IF IsErr(p) \/ i > Len(xs) THEN p
    ELSE AddContents(
            AddReconstructed(p, IF IsDict(xs[i])
                                THEN _dict_to_element(xs[i], p.at \o "." \o ToString(i))
                                ELSE S(PyStr(xs[i]))),
            xs, i + 1)

RECURSIVE AddMetaTags(_, _, _)
AddMetaTags(p, kv, i) ==
    IF i > Len(kv) THEN p ELSE AddMetaTags(add_meta_tag(p, kv[i][1], kv[i][2]), kv, i + 1)

\* `for x in v: page.add_css(x)` (and add_js): Page defines neither method, so
\* the first iteration raises AttributeError; iterating None raises TypeError
CallMissingMethodForEach(v) ==
    CASE v.t = "none" -> Err("TypeError")
      [] v.t = "list" -> IF Len(v.l) > 0 THEN Err("AttributeError") ELSE None
      [] v.t = "str" -> IF v.s # "" THEN Err("AttributeError") ELSE None
      [] OTHER -> IF Len(v.kv) > 0 THEN Err("AttributeError") ELSE None

\* the loops over custom_css, custom_js and meta_tags that end _dict_to_page
FinishPage(p, data) ==
    IF IsErr(p) THEN p
    ELSE IF IsErr(CallMissingMethodForEach(GetOr(data, "custom_css", L(<<>>))))
    THEN CallMissingMethodForEach(GetOr(data, "custom_css", L(<<>>)))
    ELSE IF IsErr(CallMissingMethodForEach(GetOr(data, "custom_js", L(<<>>))))
    THEN CallMissingMethodForEach(GetOr(data, "custom_js", L(<<>>)))
    ELSE IF ~IsDict(GetOr(data, "meta_tags", EmptyDict)) THEN Err("AttributeError")
    ELSE AddMetaTags(p, GetOr(data, "meta_tags", EmptyDict).kv, 1)

\* variant: the theme key is required
ApplyTheme_required(p, data) ==
    IF ~Has(data, "theme") THEN Err("KeyError")
    ELSE set_theme(p, IF IsStr(Get(data, "theme")) THEN Get(data, "theme").s ELSE "")

\* page.set_theme(data['theme']) when the mapping has the key
ApplyTheme(p, data) ==
    IF ~Has(data, "theme") THEN p
    ELSE set_theme(p, IF IsStr(Get(data, "theme")) THEN Get(data, "theme").s ELSE "")

\* the loop over data.get('content', [])
AddContentList(p, content) ==
    IF ~IsList(content) THEN Err("TypeError") ELSE AddContents(p, content.l, 1)

_dict_to_page(data, at) ==
    IF ~Has(data, "title") \/ ~Has(data, "header_text") THEN Err("KeyError")
    ELSE FinishPage(
            AddContentList(
                ApplyTheme(Page_init(at, Get(data, "title"), Get(data, "header_text"),
                                     GetOr(data, "logo_url", None), None, None,
                                     "bootstrap", None, TRUE),
                           data),
                GetOr(data, "content", L(<<>>))),
            data)

\* what the constructors of Button and Paragraph would add to a node
ConstructorDefaults(e) ==
    IF IsErr(e) THEN e
    ELSE IF e.cls = "Button"
    THEN set_attribute(SetAttr(add_class(e, S("btn btn-primary")), "tag", S("button")),
                       "type", S("button"))
    ELSE IF e.cls = "Paragraph" THEN SetAttr(e, "tag", S("p"))
    ELSE e

\* variant: the node is built by the constructor of its class
from_dict_constructing(data, at) ==
    IF GetOr(data, "type", None) = S("Page") THEN _dict_to_page(data, at)
    ELSE ConstructorDefaults(_dict_to_element(data, at))

from_dict(data, at) ==
    IF GetOr(data, "type", None) = S("Page") THEN _dict_to_page(data, at)
    ELSE _dict_to_element(data, at)

-----------------------------------------------------------------------------
(* json.dumps(value, indent=2) and json.loads(text) *)

Ch(s, i) == SubSeq(s, i, i)

JsonEscapeChar(c) ==
    CASE c = "\"" -> "\\\""
      [] c = "\\" -> "\\\\"
      [] c = "\n" -> "\\n"
      [] c = "\t" -> "\\t"
      [] c = "\r" -> "\\r"
      [] OTHER -> c
JsonString(s) == "\"" \o Concat([i \in 1..Len(s) |-> JsonEscapeChar(Ch(s, i))]) \o "\""

RECURSIVE Indent(_)
Indent(n) == IF n = 0 THEN "" ELSE "  " \o Indent(n - 1)

\* json.dumps raises TypeError for a value that is not JSON serializable (an object)
RECURSIVE Serializable(_)
Serializable(v) ==
    CASE v.t \in {"none", "str"} -> TRUE
      [] v.t = "list" -> \A i \in 1..Len(v.l) : Serializable(v.l[i])
      [] v.t = "dict" -> \A i \in 1..Len(v.kv) : Serializable(v.kv[i][2])
      [] OTHER -> FALSE

RECURSIVE JsonText(_, _)
JsonText(v, level) ==
    CASE v.t = "none" -> "null"
      [] v.t = "str" -> JsonString(v.s)
      [] v.t = "list" ->
            IF Len(v.l) = 0 THEN "[]"
            ELSE "[\n" \o Join(",\n", [i \in 1..Len(v.l) |->
                     Indent(level + 1) \o JsonText(v.l[i], level + 1)])
                 \o "\n" \o Indent(level) \o "]"
      [] OTHER ->
            IF Len(v.kv) = 0 THEN "{}"
            ELSE "{\n" \o Join(",\n", [i \in 1..Len(v.kv) |->
                     Indent(level + 1) \o JsonString(v.kv[i][1]) \o ": "
                     \o JsonText(v.kv[i][2], level + 1)])
                 \o "\n" \o Indent(level) \o "}"

JsonDumps(v) == IF Serializable(v) THEN S(JsonText(v, 0)) ELSE Err("TypeError")

JsonWs == {" ", "\n", "\t", "\r"}

RECURSIVE SkipWs(_, _)
SkipWs(s, i) == IF i <= Len(s) /\ Ch(s, i) \in JsonWs THEN SkipWs(s, i + 1) ELSE i

JsonUnescape(c) ==
    CASE c = "n" -> "\n"
      [] c = "t" -> "\t"
      [] c = "r" -> "\r"
      [] OTHER -> c

\* parse results are [v |-> value, i |-> position after it]; v is Err on bad input
RECURSIVE ParseChars(_, _, _)
ParseChars(s, i, acc) ==
    IF i > Len(s) THEN [v |-> Err("JSONDecodeError"), i |-> i]
    ELSE IF Ch(s, i) = "\"" THEN [v |-> S(acc), i |-> i + 1]
    ELSE IF Ch(s, i) = "\\"
         THEN IF i + 1 > Len(s) THEN [v |-> Err("JSONDecodeError"), i |-> i]
              ELSE ParseChars(s, i + 2, acc \o JsonUnescape(Ch(s, i + 1)))
    ELSE ParseChars(s, i + 1, acc \o Ch(s, i))

RECURSIVE ParseValue(_, _), ParseItems(_, _, _), ParseMembers(_, _, _)

ParseValue(s, i0) ==
    LET i == SkipWs(s, i0)
    IN IF i > Len(s) THEN [v |-> Err("JSONDecodeError"), i |-> i]
       ELSE IF Ch(s, i) = "\"" THEN ParseChars(s, i + 1, "")
       ELSE IF i + 3 <= Len(s) /\ SubSeq(s, i, i + 3) = "null" THEN [v |-> None, i |-> i + 4]
       ELSE IF Ch(s, i) = "["
            THEN LET j == SkipWs(s, i + 1)
                 IN IF j <= Len(s) /\ Ch(s, j) = "]" THEN [v |-> L(<<>>), i |-> j + 1]
                    ELSE ParseItems(s, j, <<>>)
       ELSE IF Ch(s, i) = "{"
            THEN LET j == SkipWs(s, i + 1)
                 IN IF j <= Len(s) /\ Ch(s, j) = "}" THEN [v |-> D(<<>>), i |-> j + 1]
                    ELSE ParseMembers(s, j, D(<<>>))
       ELSE [v |-> Err("JSONDecodeError"), i |-> i]

ParseItems(s, i, acc) ==
    LET r == ParseValue(s, i)
        j == SkipWs(s, r.i)
    IN IF IsErr(r.v) THEN r
       ELSE IF j > Len(s) THEN [v |-> Err("JSONDecodeError"), i |-> j]
       ELSE IF Ch(s, j) = "," THEN ParseItems(s, j + 1, Append(acc, r.v))
       ELSE IF Ch(s, j) = "]" THEN [v |-> L(Append(acc, r.v)), i |-> j + 1]
       ELSE [v |-> Err("JSONDecodeError"), i |-> j]

\* a repeated key keeps its first position and takes the last value, as a dict does
ParseMembers(s, i0, acc) ==
    LET i == SkipWs(s, i0)
        k == IF i <= Len(s) /\ Ch(s, i) = "\"" THEN ParseChars(s, i + 1, "")
             ELSE [v |-> Err("JSONDecodeError"), i |-> i]
        c == SkipWs(s, k.i)
        r == ParseValue(s, c + 1)
        j == SkipWs(s, r.i)
    IN IF IsErr(k.v) THEN k
       ELSE IF c > Len(s) \/ Ch(s, c) # ":" THEN [v |-> Err("JSONDecodeError"), i |-> c]
       ELSE IF IsErr(r.v) THEN r
       ELSE IF j > Len(s) THEN [v |-> Err("JSONDecodeError"), i |-> j]
       ELSE IF Ch(s, j) = "," THEN ParseMembers(s, j + 1, Put(acc, k.v.s, r.v))
       ELSE IF Ch(s, j) = "}" THEN [v |-> Put(acc, k.v.s, r.v), i |-> j + 1]
       ELSE [v |-> Err("JSONDecodeError"), i |-> j]

JsonLoads(text) ==
    LET r == ParseValue(text, 1)
    IN IF IsErr(r.v) THEN r.v
       ELSE IF SkipWs(text, r.i) <= Len(text) THEN Err("JSONDecodeError")
       ELSE r.v

\* json.dumps(d, indent=2) for the mapping to_dict returned
DumpResult(d) == IF IsErr(d) THEN d ELSE JsonDumps(d)

to_json(element) == DumpResult(to_dict(element))

\* from_dict(data) for the parsed text: data.get raises on a list or a string
FromParsed(data, at) ==
    IF IsErr(data) THEN data
    ELSE IF ~IsDict(data) THEN Err("AttributeError")
    ELSE from_dict(data, at)

from_json(json_str, at) == FromParsed(JsonLoads(json_str), at)

-----------------------------------------------------------------------------
(* Inputs *)

\* optional string arguments: omitted, empty, given
OptStr(x) == {None, S(""), S(x)}

\* arguments of add_content / add_field / add_element that are objects built inline
ChildNodes ==
    {Paragraph_init("c1", S("a"), None, None),
     Heading_init("c2", S("t"), 2, None, None),
     Heading_init("c3", S("t"), 0, None, None)}

\* nodes as their constructors return them
ConstructedNodes ==
    {Element_init("Element", "n", S("div"), S("x"), None, None, None, None, None),
     Element_init("Element", "n", S("span"), S(""), D(<< <<"title", S("t")>> >>), S("c"),
                  S("i"), S("color:red;"), None),
     Paragraph_init("n", S("a"), None, None),
     Div_init("n", S(""), S("box"), None),
     Container_init("n", S("x"), TRUE, None, None),
     Form_init("n", S("/go"), S("POST"), None, None),
     Input_init("n", S("text"), S("q"), S(""), S(""), TRUE, None, None, S("Query")),
     TextArea_init("n", S("msg"), S("hi"), S(""), 3, 0, FALSE, None, None, None),
     Select_init("n", S("pick"), None, FALSE, FALSE, None, None, None),
     Button_init("n", S("Go"), S("button"), None, None, None),
     Row_init("n", L(<<S("x"), Paragraph_init("c1", S("a"), None, None)>>), None, None),
     Column_init("n", S("x"), S("6"), None, None),
     Flex_init("n", S(""), "column", S("center"), None, TRUE, None, None),
     Alert_init("n", S("careful"), "info", TRUE, None),
     Badge_init("n", S("new"), "secondary", None),
     ProgressBar_init("n", 50, 100, "half", "primary", FALSE, FALSE, None),
     Accordion_init("n", S("acc"), None),
     Modal_init("n", S("m"), "Title", "Body", "", "", None)}

\* Element mappings handed to from_dict
ClassNames == class_map \cup {"NoSuchWidget"}

MappingFor(cn) ==
    {D(<< <<"type", S("Element")>>, <<"class_name", S(cn)>>, <<"tag", S("div")>>,
          <<"attributes", EmptyDict>>, <<"content", S("x")>> >>),
     D(<< <<"type", S("Element")>>, <<"class_name", S(cn)>>, <<"tag", S("span")>>,
          <<"css_class", None>>, <<"id_attr", None>>, <<"style", None>>,
          <<"attributes", D(<< <<"class", S("a")>>, <<"id", S("i")>> >>)>>,
          <<"content", S("")>> >>)}

NestedMappings ==
    {D(<< <<"type", S("Element")>>, <<"class_name", S("Div")>>, <<"tag", S("div")>>,
          <<"attributes", EmptyDict>>,
          <<"content", L(<< S("x"),
               D(<< <<"type", S("Element")>>, <<"class_name", S("Paragraph")>>,
                    <<"tag", S("p")>>, <<"attributes", EmptyDict>>,
                    <<"content", S("a")>> >>) >>)>> >>),
     D(<< <<"type", S("Element")>>, <<"class_name", S("Alert")>>, <<"tag", S("div")>>,
          <<"attributes", D(<< <<"class", S("alert")>> >>)>>,
          <<"content", S("m")>>,
          <<"child_elements", L(<< S("y"),
               D(<< <<"type", S("Element")>>, <<"class_name", S("Badge")>>,
                    <<"tag", S("span")>>, <<"attributes", EmptyDict>>,
                    <<"content", S("b")>> >>) >>)>> >>),
     D(<< <<"type", S("Element")>>, <<"class_name", S("Form")>>, <<"tag", S("form")>>,
          <<"attributes", EmptyDict>>, <<"content", S("")>>,
          <<"fields", L(<< D(<< <<"type", S("Element")>>, <<"class_name", S("Button")>>,
                    <<"tag", S("button")>>, <<"attributes", EmptyDict>>,
                    <<"content", S("Go")>> >>) >>)>> >>)}

ElementMappings == UNION {MappingFor(cn) : cn \in ClassNames} \cup NestedMappings

-----------------------------------------------------------------------------
(* Operations on the Heading *)

MinLevel == 0 - 1
Levels == MinLevel..MaxLevel

HeadingInitState ==
    /\ node = NoObj /\ origin = "none"
    /\ op = [name |-> "init"] /\ steps = 0
    /\ heading = NoObj /\ hres = NoResult
    /\ page = NoObj
    /\ metaLog = <<>> /\ linkLog = <<>> /\ scriptLog = <<>> /\ fragLog = <<>>
    /\ components = BuiltinComponents /\ hooks = EmptyDict /\ generated_pages = <<>>
    /\ heap = << >>

\* Heading(text, level, css_class, id_attr): hres is the constructor's outcome
HeadingNew ==
    /\ heading = NoObj
    /\ \E level \in Levels, css_class \in OptStr("c"), id_attr \in OptStr("i") :
          LET h == Heading_init("h", S("t"), level, css_class, id_attr)
          IN /\ heading' = IF IsErr(h) THEN NoObj ELSE h
             /\ hres' = IF IsErr(h) THEN h ELSE S("constructed")
             /\ op' = [name |-> "Heading", level |-> level]
    /\ UNCHANGED <<elemVars, steps, pageVars, pluginVars, apiVars, heapVars>>

HeadingRender ==
    /\ heading # NoObj
    /\ hres' = Heading_render(heading)
    /\ op' = [name |-> "Heading.render"]
    /\ UNCHANGED <<heading, elemVars, steps, pageVars, pluginVars, apiVars, heapVars>>

HeadingSetClass ==
    /\ heading # NoObj /\ steps < MaxSteps
    /\ \E css_class \in {S(""), S("k")} : heading' = Heading_set_class(heading, css_class)
    /\ steps' = steps + 1
    /\ hres' = NoResult
    /\ op' = [name |-> "Heading.set_class"]
    /\ UNCHANGED <<elemVars, pageVars, pluginVars, apiVars, heapVars>>

HeadingSetId ==
    /\ heading # NoObj /\ steps < MaxSteps
    /\ \E id_attr \in {S(""), S("j")} : heading' = Heading_set_id(heading, id_attr)
    /\ steps' = steps + 1
    /\ hres' = NoResult
    /\ op' = [name |-> "Heading.set_id"]
    /\ UNCHANGED <<elemVars, pageVars, pluginVars, apiVars, heapVars>>

HeadingNext == HeadingNew \/ HeadingRender \/ HeadingSetClass \/ HeadingSetId

SpecHeading == HeadingInitState /\ [][HeadingNext]_vars

-----------------------------------------------------------------------------
(* Properties of the Heading *)

\* C4 (as stated): constructing a Heading with level 0 or 7 fails with
\* ValueError at construction, and constructing with a level in 1..6 succeeds.
C4_ConstructionValidatesLevel ==
    op.name = "Heading" =>
        /\ op.level \in {0, 7} => hres = Err("ValueError")
        /\ op.level \in 1..6 => hres = S("constructed")

\* C4 (amended): constructing a Heading succeeds for every level, 0 and 7
\* included, and stores the level as given; the level is validated by render.
C4_ConstructionNeverFails ==
    op.name = "Heading" =>
        /\ hres = S("constructed")
        /\ IsObj(heading) /\ heading.cls = "Heading"
        /\ heading.d.level = op.level
        /\ (op.level \notin 1..6 => Heading_render(heading) = Err("ValueError"))

C4_Witness ==
    /\ op.name = "Heading" /\ op.level \in {0, 7}
    /\ hres = S("constructed") /\ heading.d.level = op.level

\* the markup of a heading with a valid level: the class and id attributes
\* appear when set to a non-empty string
HeadingMarkup(level, css_class, id_attr, text) ==
    "<h" \o ToString(level)
    \o (IF css_class \in {None, S("")} THEN "" ELSE " class=\"" \o css_class.s \o "\"")
    \o (IF id_attr \in {None, S("")} THEN "" ELSE " id=\"" \o id_attr.s \o "\"")
    \o ">" \o text.s \o "</h" \o ToString(level) \o ">"

\* C5: Heading.render() raises ValueError exactly for the levels outside 1..6,
\* whatever set_class and set_id did before; for a level in 1..6 it returns
\* <h{level}{class attr if set}{id attr if set}>text</h{level}>.
C5_HeadingRender ==
    op.name = "Heading.render" =>
        /\ (hres = Err("ValueError")) <=> (heading.d.level \notin 1..6)
        /\ heading.d.level \in 1..6 =>
               hres = S(HeadingMarkup(heading.d.level, heading.d.css_class,
                                      heading.d.id_attr, heading.d.text))

C5_Witness ==
    /\ op.name = "Heading.render" /\ steps > 0
    /\ heading.d.level = 7 /\ heading.d.css_class = S("k")
    /\ hres = Err("ValueError")

-----------------------------------------------------------------------------
(* Operations on a node *)

ElemInitState ==
    /\ node = NoObj /\ origin = "none"
    /\ op = [name |-> "init"] /\ steps = 0
    /\ heading = NoObj /\ hres = NoResult
    /\ page = NoObj
    /\ metaLog = <<>> /\ linkLog = <<>> /\ scriptLog = <<>> /\ fragLog = <<>>
    /\ components = BuiltinComponents /\ hooks = EmptyDict /\ generated_pages = <<>>
    /\ heap = << >>

\* a constructor call
NewNode ==
    /\ node = NoObj
    /\ \E o \in ConstructedNodes : node' = o
    /\ origin' = "setters"
    /\ op' = [name |-> "new"]
    /\ UNCHANGED <<steps, headVars, pageVars, pluginVars, apiVars, heapVars>>

\* node = from_dict(data) for an Element mapping; n is what from_dict returned
Reconstructed(data, n) ==
    /\ node' = IF IsErr(n) THEN NoObj ELSE n
    /\ origin' = IF IsErr(n) THEN "none" ELSE "from_dict"
    /\ op' = [name |-> "from_dict", data |-> data, res |-> n]

FromDict ==
    /\ node = NoObj
    /\ \E data \in ElementMappings : Reconstructed(data, from_dict(data, "n"))
    /\ UNCHANGED <<steps, headVars, pageVars, pluginVars, apiVars, heapVars>>

\* the common shape of a mutating call: n1 is the node after the call, or Err
\* when the call raised (the node is then left as it was)
Mutate(name, n1, plain) ==
    /\ node' = IF IsErr(n1) THEN node ELSE n1
    /\ origin' = IF plain \/ origin # "setters" THEN origin ELSE "other"
    /\ op' = [name |-> name, res |-> IF IsErr(n1) THEN n1 ELSE None]
    /\ steps' = steps + 1
    /\ UNCHANGED <<headVars, pageVars, pluginVars, apiVars, heapVars>>

CanMutate == node # NoObj /\ steps < MaxSteps

\* a call of one of the fluent setters: n1 is the object the call returned,
\* which the caller goes on with; the attribute key the call names, its
\* argument and the address of the returned object are recorded
Setter(name, key, arg, n1) ==
    /\ node' = n1
    /\ op' = [name |-> name, key |-> key, arg |-> arg, ret |-> n1.at]
    /\ steps' = steps + 1
    /\ UNCHANGED <<origin, headVars, pageVars, pluginVars, apiVars, heapVars>>

SetAttribute ==
    /\ CanMutate
    /\ \E kv \in {<<"data-x", "1">>, <<"class", "z">>} :
          Setter("set_attribute", kv[1], S(kv[2]), set_attribute(node, kv[1], S(kv[2])))

AddClass == CanMutate /\ Setter("add_class", "class", S("k"), add_class(node, S("k")))

SetId == CanMutate /\ Setter("set_id", "id", S("j"), set_id(node, S("j")))

SetStyle ==
    /\ CanMutate
    /\ \E st \in {"", "color:red", "margin:0; "} :
          Setter("set_style", "style", S(st), set_style(node, S(st)))

AddStyle == CanMutate /\ Setter("add_style", "style", S("top:0"), add_style(node, S("top:0")))

SetEvent ==
    /\ CanMutate
    /\ Setter("set_event", "onclick", S("go()"), set_event(node, "onclick", S("go()")))

\* add_content (Div, Container, Column), add_column (Row) and add_item (Flex)
AddContent ==
    /\ CanMutate
    /\ node.cls \in AddContentClasses \cup {"Row", "Flex"}
    /\ \E content \in {S("y")} \cup ChildNodes :
          Mutate("add_content", AppendContent(node, content), node.cls \in AddContentClasses)

AddItem ==
    /\ CanMutate
    /\ node.cls = "Accordion"
    /\ \E expanded \in BOOLEAN :
          Mutate("add_item", Accordion_add_item(node, "Title", "Text", expanded), FALSE)

AddField ==
    /\ CanMutate
    /\ node.cls = "Form"
    /\ \E field \in {S("y")} \cup ChildNodes :
          Mutate("add_field", Form_add_field(node, field), FALSE)

AddElement ==
    /\ CanMutate
    /\ node.cls \in {"Alert", "Modal", "ProgressBar", "Accordion"}
    /\ \E element \in {S("y")} \cup ChildNodes :
          Mutate("add_element", ComponentBase_add_element(node, element), FALSE)

AddOption ==
    /\ CanMutate
    /\ node.cls = "Select"
    /\ \E selected \in BOOLEAN :
          Mutate("add_option", Select_add_option(node, S("v"), S("Text"), selected), FALSE)

\* node.render(); op.prev is what the call before it returned when that call
\* was a render() of the same node too
Rendered(r) ==
    /\ node' = r.self
    /\ op' = [name |-> "render", res |-> r.res,
              prev |-> IF op.name = "render" THEN op.res ELSE NoResult]

Render ==
    /\ node # NoObj
    /\ Rendered(render(node))
    /\ UNCHANGED <<origin, steps, headVars, pageVars, pluginVars, apiVars, heapVars>>

\* variant: the export moves the node's class attribute into css_class
ToDict_consuming ==
    /\ node # NoObj
    /\ node' = IF HasAttr(node, "css_class") /\ HasAttr(node, "attributes")
               THEN SetAttr(SetAttr(node, "css_class", GetOr(node.d.attributes, "class", None)),
                            "attributes", D(SelectSeq(node.d.attributes.kv,
                                                      LAMBDA e : e[1] # "class")))
               ELSE node
    /\ op' = [name |-> "to_dict", res |-> to_dict(node),
              prev |-> IF op.name = "to_dict" THEN op.res ELSE NoResult]
    /\ UNCHANGED <<origin, steps, headVars, pageVars, pluginVars, apiVars, heapVars>>

\* to_dict(node); op.prev is what the call before it returned when that call
\* was a to_dict of the same node too
ToDict ==
    /\ node # NoObj
    /\ op' = [name |-> "to_dict", res |-> to_dict(node),
              prev |-> IF op.name = "to_dict" THEN op.res ELSE NoResult]
    /\ UNCHANGED <<node, origin, steps, headVars, pageVars, pluginVars, apiVars, heapVars>>

\* from_dict(d) for the mapping to_dict returned
Rebuilt(d, at) == IF IsErr(d) THEN d ELSE from_dict(d, at)

\* n.render() for the node from_dict returned
RenderResult(n) == IF IsErr(n) THEN n ELSE render(n).res

\* from_dict(to_dict(node)).render()
RoundTrip ==
    /\ node # NoObj
    /\ op' = [name |-> "round_trip", res |-> RenderResult(Rebuilt(to_dict(node), "r"))]
    /\ UNCHANGED <<node, origin, steps, headVars, pageVars, pluginVars, apiVars, heapVars>>

ElemNext ==
    \/ NewNode \/ FromDict
    \/ SetAttribute \/ AddClass \/ SetId \/ SetStyle \/ AddStyle \/ SetEvent
    \/ AddContent \/ AddItem \/ AddField \/ AddElement \/ AddOption
    \/ Render \/ ToDict \/ RoundTrip

SpecElem == ElemInitState /\ [][ElemNext]_vars

-----------------------------------------------------------------------------
(* Properties of a node *)

\* C1: for every node of a registry variant built only with its constructor
\* and the public setters, to_dict(n) returns without error and
\* from_dict(to_dict(n)).render() equals n.render().
C1_ElementRoundTrip ==
    (op.name = "round_trip" /\ origin = "setters" /\ node.cls \in class_map) =>
        /\ IsDict(to_dict(node))
        /\ IsStr(op.res)
        /\ op.res = render(node).res

\* the node of C1's failing input: Element("div", "x"), exported and rebuilt
C1_Witness ==
    /\ op.name = "round_trip" /\ origin = "setters" /\ steps = 0
    /\ node = Element_init("Element", "n", S("div"), S("x"), None, None, None, None, None)
    /\ op.res = Err("AttributeError")

\* the mapping of C3
NoSuchWidgetMapping ==
    D(<< <<"type", S("Element")>>, <<"class_name", S("NoSuchWidget")>>, <<"tag", S("div")>>,
         <<"attributes", EmptyDict>>, <<"content", S("x")>> >>)

\* C3: from_dict on an Element mapping whose class_name is not in the registry
\* does not fail; it returns an instance of the generic base Element, and for
\* {type: Element, class_name: NoSuchWidget, tag: div, attributes: {},
\* content: x} the render() of the result is exactly <div>x</div>.
C3_UnknownVariantDegrades ==
    (op.name = "from_dict" /\ Get(op.data, "class_name").s \notin class_map) =>
        /\ IsObj(op.res) /\ op.res.cls = "Element"
        /\ node = op.res
        /\ op.data = NoSuchWidgetMapping => render(node).res = S("<div>x</div>")

C3_Witness ==
    /\ op.name = "from_dict" /\ op.data = NoSuchWidgetMapping
    /\ node.cls = "Element" /\ render(node).res = S("<div>x</div>")

\* C6: calling render() twice on a node with no mutation in between returns
\* the same string (or raises the same error) both times.
C6_RenderIdempotent ==
    (op.name = "render" /\ op.prev # NoResult) => op.res = op.prev

\* an Accordion with an item and a child, rendered twice
C6_Witness ==
    /\ op.name = "render" /\ IsStr(op.prev) /\ op.res = op.prev
    /\ node.cls = "Accordion"
    /\ Len(node.d.items.l) > 0 /\ Len(node.d.child_elements.l) > 0

\* equality of parsed JSON values, the order of an object's keys ignored
RECURSIVE DeepEqual(_, _)
DeepEqual(a, b) ==
    IF IsDict(a) /\ IsDict(b)
    THEN /\ Keys(a) = Keys(b)
         /\ Len(a.kv) = Len(b.kv)
         /\ \A k \in Keys(a) : DeepEqual(Get(a, k), Get(b, k))
    ELSE IF IsList(a) /\ IsList(b)
    THEN /\ Len(a.l) = Len(b.l)
         /\ \A i \in 1..Len(a.l) : DeepEqual(a.l[i], b.l[i])
    ELSE a = b

\* json.loads(json.dumps(v))
Reparsed(v) == LET text == JsonDumps(v) IN IF IsErr(text) THEN text ELSE JsonLoads(text.s)

-----------------------------------------------------------------------------
(* Operations on the Page *)

\* the live node handed to Page.add_content and mutated afterwards
PageNode == Div_init("n", S(""), S("box"), None)

\* Page("T", "H", css_framework = .., custom_css = .., use_modern_navbar = ..);
\* the logs start with the calls the constructor makes
PageInitState ==
    /\ \E css_framework \in {"bootstrap", "none"}, custom_css \in {None, S("body{}")},
          use_modern_navbar \in BOOLEAN :
          /\ page = Page_init("p", S("T"), S("H"), None, None, None, css_framework,
                              custom_css, use_modern_navbar)
          /\ linkLog = IF css_framework = "bootstrap" THEN <<BootstrapDarkCss>> ELSE <<>>
          /\ scriptLog = IF css_framework = "bootstrap" THEN <<BootstrapJs>> ELSE <<>>
    /\ metaLog = <<>> /\ fragLog = <<>>
    /\ components = BuiltinComponents /\ hooks = EmptyDict /\ generated_pages = <<>>
    /\ heap = << >>
    /\ node = PageNode /\ origin = "setters"
    /\ op = [name |-> "Page"] /\ steps = 0
    /\ heading = NoObj /\ hres = NoResult

\* the common shape of a call that mutates the page
PageCall(name, p1) ==
    /\ page' = p1
    /\ op' = [name |-> name]
    /\ steps' = steps + 1
    /\ UNCHANGED <<elemVars, headVars, pluginVars, apiVars, heapVars>>

CanCall == steps < MaxSteps

\* page.add_meta_tag(name, content); a name added again gets a new content
PageAddMetaTag ==
    /\ CanCall
    /\ \E name \in {"a", "b"} :
          LET content == IF Has(page.d.meta_tags, name) THEN S("2") ELSE S("1")
          IN /\ PageCall("add_meta_tag", add_meta_tag(page, name, content))
             /\ metaLog' = Append(metaLog, <<name, content>>)
    /\ UNCHANGED <<linkLog, scriptLog, fragLog>>

PageAddCssLink ==
    /\ CanCall
    /\ \E href \in {"x.css", "My-Bootstrap.css"} :
          /\ PageCall("add_css_link", add_css_link(page, href))
          /\ linkLog' = Append(linkLog, href)
    /\ UNCHANGED <<metaLog, scriptLog, fragLog>>

PageAddScript ==
    /\ CanCall
    /\ \E src \in {"s.js", "t.js"} :
          /\ PageCall("add_script", add_script(page, src))
          /\ scriptLog' = Append(scriptLog, src)
    /\ UNCHANGED <<metaLog, linkLog, fragLog>>

PageAddBodyClass ==
    /\ CanCall
    /\ PageCall("add_body_class", add_body_class(page, "bc"))
    /\ UNCHANGED <<metaLog, linkLog, scriptLog, fragLog>>

PageSetContainerClass ==
    /\ CanCall
    /\ PageCall("set_container_class", set_container_class(page, "cc"))
    /\ UNCHANGED <<metaLog, linkLog, scriptLog, fragLog>>

PageAddNavbar ==
    /\ CanCall
    /\ PageCall("add_navbar",
                add_navbar(page, << D(<< <<"text", S("A")>>, <<"url", S("/a")>> >>) >>))
    /\ UNCHANGED <<metaLog, linkLog, scriptLog, fragLog>>

PageConfigureNavbar ==
    /\ CanCall
    /\ PageCall("configure_navbar", configure_navbar(page, S("B"), None, "modern", TRUE, TRUE))
    /\ UNCHANGED <<metaLog, linkLog, scriptLog, fragLog>>

\* the entry set_theme leaves in the log of add_css_link calls
SetThemeMark == "(set_theme)"
\* the entry of linkLog for the call set_theme(theme), and the test for it
ThemeMark(theme) == SetThemeMark \o theme
IsThemeMark(x) ==
    Len(x) >= Len(SetThemeMark) /\ SubSeq(x, 1, Len(SetThemeMark)) = SetThemeMark

\* page.set_theme(theme): the log takes a mark, then the calls set_theme makes
PageSetTheme ==
    /\ CanCall
    /\ \E theme \in {"material", "tailwind", "nosuchtheme"} :
          /\ PageCall("set_theme", set_theme(page, theme))
          /\ linkLog' = linkLog \o <<ThemeMark(theme)>> \o ThemeCssLinks(theme)
          /\ scriptLog' = scriptLog \o ThemeScripts(theme)
    /\ UNCHANGED <<metaLog, fragLog>>

\* page.add_content(content) / page.add_element(content) for a string, an
\* object built inline, or the live node: when render() raises, the call
\* raises and the page is left as it was.  r is what the call returned.
PageAdded(name, content, r) ==
    /\ page' = IF IsErr(r.page) THEN page ELSE r.page
    /\ node' = IF content = node THEN r.arg ELSE node
    /\ op' = [name |-> name, res |-> IF IsErr(r.page) THEN r.page ELSE None,
              live |-> content = node]
    /\ steps' = steps + 1
    /\ UNCHANGED <<origin, headVars, metaLog, linkLog, scriptLog, pluginVars, apiVars, heapVars>>

\* fragLog takes what the argument rendered to, or its str(), at the time of
\* the call
Logged(frag) == fragLog' = IF IsErr(frag) THEN fragLog ELSE Append(fragLog, frag.s)

PageAdd(name, content) ==
    /\ PageAdded(name, content, IF name = "add_content" THEN Page_add_content(page, content)
                                ELSE add_element(page, content))
    /\ Logged(Flatten(content))

PageAddContent ==
    /\ CanCall
    /\ \E content \in {S("f1"), node} \cup ChildNodes : PageAdd("add_content", content)

PageAddElement == CanCall /\ PageAdd("add_element", node)

\* page.generate_html()
GenerateHtml ==
    /\ op' = [name |-> "generate_html", res |-> S(generate_html(page))]
    /\ UNCHANGED <<page, elemVars, steps, headVars, metaLog, linkLog, scriptLog, fragLog, pluginVars, apiVars, heapVars>>

\* generate_html() of what from_json returned
HtmlOf(p2) ==
    IF IsErr(p2) THEN p2
    ELSE IF IsObj(p2) /\ p2.cls = "Page" THEN S(generate_html(p2))
    ELSE Err("AttributeError")

\* from_json(json) for the text to_json returned
Reloaded(json, at) == IF IsErr(json) THEN json ELSE from_json(json.s, at)

JsonOutcome(json, p2) ==
    [name |-> "json_round_trip", json |-> json,
     cls |-> IF IsObj(p2) THEN p2.cls ELSE "", res |-> HtmlOf(p2)]

\* from_json(to_json(page)).generate_html()
JsonRoundTrip ==
    /\ op' = JsonOutcome(to_json(page), Reloaded(to_json(page), "q"))
    /\ UNCHANGED <<page, elemVars, steps, headVars, metaLog, linkLog, scriptLog, fragLog, pluginVars, apiVars, heapVars>>

\* to_dict(page)
PageToDict ==
    /\ op' = [name |-> "to_dict_page", res |-> to_dict(page)]
    /\ UNCHANGED <<page, elemVars, steps, headVars, metaLog, linkLog, scriptLog, fragLog, pluginVars, apiVars, heapVars>>

\* AddClass and SetAttribute mutate the live node between the Page's calls
PageNext ==
    \/ PageAddMetaTag \/ PageAddCssLink \/ PageAddScript
    \/ PageAddBodyClass \/ PageSetContainerClass \/ PageAddNavbar \/ PageConfigureNavbar
    \/ PageSetTheme \/ PageAddContent \/ PageAddElement
    \/ AddClass \/ SetAttribute
    \/ GenerateHtml \/ JsonRoundTrip \/ PageToDict

SpecPage == PageInitState /\ [][PageNext]_vars

-----------------------------------------------------------------------------
(* Properties of the Page *)

\* Page("T", "H") as the constructor returns it
FreshPage == Page_init("p", S("T"), S("H"), None, None, None, "bootstrap", None, TRUE)

\* C2: for a freshly constructed Page("T", "H"), to_json(page) returns a JSON
\* text, from_json of that text returns a Page, and generate_html() of the
\* result contains <title>T</title> exactly once and the header block with
\* text H exactly once.
C2_PageJsonRoundTrip ==
    (op.name = "json_round_trip" /\ page = FreshPage) =>
        /\ IsStr(op.json)
        /\ op.cls = "Page"
        /\ IsStr(op.res)
        /\ Count("<title>T</title>", op.res.s) = 1
        /\ Count("<h1 class=\"h3 mb-0\">H</h1>", op.res.s) = 1

\* to_json(Page("T", "H")) raises
C2_Witness ==
    /\ op.name = "json_round_trip" /\ page = FreshPage
    /\ op.json = Err("AttributeError") /\ op.res = Err("AttributeError")

\* s without its leading whitespace
LStrip(s) == SubSeq(s, SkipWs(s, 1), Len(s))

\* The text h, read from position pos on, consists of pieces[k], pieces[k+1],
\* ... in this order with nothing but whitespace before each: the position
\* after the last piece, or 0 when h reads otherwise.
RECURSIVE MatchPieces(_, _, _, _)
MatchPieces(h, pos, pieces, k) ==
    IF k > Len(pieces) THEN pos
    ELSE LET q == SkipWs(h, pos)
             piece == LStrip(pieces[k])
             e == q + Len(piece) - 1
         IN IF e <= Len(h) /\ SubSeq(h, q, e) = piece
            THEN MatchPieces(h, e + 1, pieces, k + 1)
            ELSE 0

\* the names of the log of add_meta_tag calls, each at its first call
RECURSIVE FirstAdds(_, _)
FirstAdds(log, seen) ==
    IF Len(log) = 0 THEN <<>>
    ELSE IF Head(log)[1] \in seen THEN FirstAdds(Tail(log), seen)
    ELSE <<Head(log)[1]>> \o FirstAdds(Tail(log), seen \cup {Head(log)[1]})

\* the content of the last add_meta_tag call for a name
LastContent(log, name) ==
    log[CHOOSE i \in 1..Len(log) :
            /\ log[i][1] = name
            /\ \A j \in (i + 1)..Len(log) : log[j][1] # name][2]

\* the links registered after the calls of the log: every add_css_link call
\* in call order, less the links set_theme unregistered (those naming
\* bootstrap) at each of its calls
RECURSIVE Registered(_, _)
Registered(log, acc) ==
    IF Len(log) = 0 THEN acc
    ELSE IF IsThemeMark(Head(log))
    THEN Registered(Tail(log), SelectSeq(acc, LAMBDA l : ~Contains(Lower(l), "bootstrap")))
    ELSE Registered(Tail(log), Append(acc, Head(log)))

\* what the <head> lists, from the logs of the calls
HeadPieces ==
    << "<!DOCTYPE html>", "<html lang=\"en\" data-bs-theme=\"dark\">", "<head>",
       "<meta charset=\"UTF-8\">",
       "<meta name=\"viewport\" content=\"width=device-width, initial-scale=1.0\">",
       "<title>" \o page.d.title.s \o "</title>" >>
    \o [i \in 1..Len(FirstAdds(metaLog, {})) |->
          "<meta name=\"" \o FirstAdds(metaLog, {})[i] \o "\" content=\""
          \o LastContent(metaLog, FirstAdds(metaLog, {})[i]).s \o "\">"]
    \o [i \in 1..Len(Registered(linkLog, <<>>)) |->
          "<link rel=\"stylesheet\" href=\"" \o Registered(linkLog, <<>>)[i] \o "\">"]
    \o (IF page.d.use_modern_navbar \/ Truthy(page.d.custom_css) THEN <<"<style>">> ELSE <<>>)
    \o (IF page.d.use_modern_navbar THEN <<get_modern_navbar_css>> ELSE <<>>)
    \o (IF Truthy(page.d.custom_css) THEN <<page.d.custom_css.s>> ELSE <<>>)
    \o (IF page.d.use_modern_navbar \/ Truthy(page.d.custom_css) THEN <<"</style>">> ELSE <<>>)
    \o << "</head>", "<body" >>

\* C8: generate_html() starts with the <head>, which lists, in this order and
\* with nothing else between them, the charset and viewport meta, the
\* <title>, every registered meta tag in the order of its first add_meta_tag
\* call, every registered CSS link in add_css_link call order, then the
\* inline <style> block with the navbar CSS before the custom CSS.
C8_HeadOrdering ==
    op.name = "generate_html" => MatchPieces(op.res.s, 1, HeadPieces, 1) # 0

\* meta tag a added before b, after the link the constructor registered
C8_Witness ==
    /\ op.name = "generate_html"
    /\ metaLog = << <<"a", S("1")>>, <<"b", S("1")>> >>
    /\ Registered(linkLog, <<>>) = <<BootstrapDarkCss>>
    /\ page.d.use_modern_navbar /\ Truthy(page.d.custom_css)
    /\ IndexOf("<meta name=\"a\"", op.res.s) < IndexOf("<meta name=\"b\"", op.res.s)
    /\ IndexOf("<meta name=\"b\"", op.res.s) < IndexOf("<link ", op.res.s)

\* the last position of s, from i down, that holds no whitespace
RECURSIVE SkipWsBack(_, _)
SkipWsBack(s, i) == IF i >= 1 /\ Ch(s, i) \in JsonWs THEN SkipWsBack(s, i - 1) ELSE i

\* The text h, read backwards from position pos, consists of pieces[k],
\* pieces[k-1], ... with nothing but whitespace after each: the position
\* before pieces[1], or -1 when h reads otherwise.
RECURSIVE MatchBack(_, _, _, _)
MatchBack(h, pos, pieces, k) ==
    IF k = 0 THEN pos
    ELSE LET q == SkipWsBack(h, pos)
             piece == RStrip(pieces[k])
             b == q - Len(piece) + 1
         IN IF b >= 1 /\ SubSeq(h, b, q) = piece
            THEN MatchBack(h, b - 1, pieces, k - 1)
            ELSE 0 - 1

\* what follows the <head>, from the logs of the calls
BodyPieces ==
    << "</head>",
       IF Len(page.d.body_classes.l) = 0 THEN "<body>"
       ELSE "<body class=\""
            \o Join(" ", [i \in 1..Len(page.d.body_classes.l) |-> page.d.body_classes.l[i].s])
            \o "\">",
       render_header(page),
       "<main class=\"" \o page.d.container_class.s \o " mt-4\">" >>
    \o fragLog
    \o << "</main>" >>
    \o [i \in 1..Len(scriptLog) |-> "<script src=\"" \o scriptLog[i] \o "\"></script>"]
    \o (IF page.d.use_modern_navbar
        THEN << "<script>", get_modern_navbar_js, "</script>" >> ELSE <<>>)
    \o << "</body>", "</html>" >>

\* C9: in generate_html() the <body> follows the <head> and holds, in this
\* order and with nothing else between them, the header block, the <main>
\* with every fragment in add_content()/add_element() call order, every
\* registered script in add_script() call order and, last, the inline navbar
\* script when the modern navbar is in use.
C9_BodyOrdering ==
    op.name = "generate_html" =>
        MatchBack(op.res.s, Len(op.res.s), BodyPieces, Len(BodyPieces)) >= 1

\* two fragments in call order, before the script the constructor registered
C9_Witness ==
    /\ op.name = "generate_html"
    /\ page.d.use_modern_navbar
    /\ fragLog = << "f1", "<div class=\"box\"></div>" >>
    /\ scriptLog = << BootstrapJs >>
    /\ IndexOf("f1", op.res.s) < IndexOf("<div class=\"box\"></div>", op.res.s)
    /\ IndexOf("<div class=\"box\"></div>", op.res.s) < IndexOf("<script src=", op.res.s)

\* C10: a fragment is the text the content rendered to at the moment of the
\* add_content()/add_element() call: the page holds exactly the texts
\* rendered at the calls, in call order, whatever was called afterwards on
\* the page or on the node that was added.
C10_BodySnapshot ==
    page.d.body_content.l = [i \in 1..Len(fragLog) |-> S(fragLog[i])]

\* the node was added, then changed: the page shows the earlier rendering
C10_Witness ==
    /\ op.name = "generate_html"
    /\ fragLog = << render(PageNode).res.s >>
    /\ node # PageNode
    /\ IsStr(render(node).res)
    /\ render(node).res.s # fragLog[1]
    /\ Contains(op.res.s, fragLog[1])
    /\ ~Contains(op.res.s, render(node).res.s)

-----------------------------------------------------------------------------
(* Operations of the export manager and of the plugin registry *)

ExportInitState ==
    /\ node = NoObj /\ origin = "none"
    /\ op = [name |-> "init"] /\ steps = 0
    /\ heading = NoObj /\ hres = NoResult
    /\ page = NoObj
    /\ metaLog = <<>> /\ linkLog = <<>> /\ scriptLog = <<>> /\ fragLog = <<>>
    /\ components = BuiltinComponents /\ hooks = EmptyDict /\ generated_pages = <<>>
    /\ heap = << >>

\* @register_component(name) on a class: a new name, a name from_dict does
\* not know, a name of the table of from_dict, a built-in registered again
Registrations ==
    { <<None, "Gadget">>, <<S("NoSuchWidget"), "Gadget">>, <<S("Div"), "Gadget">>,
      <<S("Timeline"), "Timeline">> }

\* the calls of the export manager are observed once per behaviour, after
\* the registrations
BeforeExport == op.name \in {"init", "register_component"}

RegisterComponent ==
    /\ BeforeExport
    /\ \E r \in Registrations :
          /\ components' = register_component(components, r[1], r[2])
          /\ op' = [name |-> "register_component", cls |-> r[2]]
    /\ UNCHANGED <<elemVars, steps, headVars, pageVars, hooks, apiVars, heapVars>>

\* values that are neither an Element nor a Page
ForeignValues ==
    { None, S(""), S("x"), L(<<>>), L(<<S("x")>>), EmptyDict,
      D(<< <<"type", S("Element")>>, <<"tag", S("div")>> >>),
      Heading_init("h", S("t"), 1, None, None),
      Heading_init("h", S("t"), 0, S("k"), None) }

\* Elements, as constructed and as from_dict returns them, and Pages
ExportValues ==
    ConstructedNodes
    \cup { from_dict(data, "n") : data \in ElementMappings }
    \cup { Page_init("p", S("T"), S("H"), None, None, None, "bootstrap", None, TRUE),
           Page_add_content(Page_init("p", S("T"), S("H"), S("l.png"), None, None, "none",
                                      S("body{}"), FALSE), S("f1")).page }
    \cup ForeignValues

\* to_dict(value)
ExportToDict ==
    /\ BeforeExport
    /\ \E value \in ExportValues :
          op' = [name |-> "to_dict", arg |-> value, res |-> to_dict(value)]
    /\ UNCHANGED <<elemVars, steps, headVars, pageVars, pluginVars, apiVars, heapVars>>

\* the mapping d without the keys ks
Without(d, ks) == D(SelectSeq(d.kv, LAMBDA e : e[1] \notin ks))

\* Element mappings that carry every key _dict_to_element reads
FullElementMappings ==
    { D(<< <<"type", S("Element")>>, <<"class_name", S("Div")>>, <<"tag", S("section")>>,
           <<"css_class", S("c")>>, <<"id_attr", S("i")>>, <<"style", S("top:0")>>,
           <<"attributes", D(<< <<"class", S("c")>> >>)>>,
           <<"content", L(<< S("x"),
                D(<< <<"type", S("Element")>>, <<"class_name", S("Paragraph")>>,
                     <<"tag", S("p")>>, <<"content", S("a")>> >>) >>)>>,
           <<"child_elements", L(<< S("y") >>)>>,
           <<"fields", L(<< D(<< <<"class_name", S("Button")>>, <<"tag", S("button")>>,
                                 <<"content", S("Go")>> >>) >>)>>,
           <<"columns", L(<<>>)>> >>) }

ElementOptionalKeys ==
    {"tag", "css_class", "id_attr", "style", "attributes", "content", "child_elements",
     "fields", "columns"}

\* Page mappings that carry every key _dict_to_page reads; the custom_css and
\* custom_js lists are empty in the first and hold one entry each in the second
FullPageMappings ==
    { D(<< <<"type", S("Page")>>, <<"title", S("T")>>, <<"header_text", S("H")>>,
           <<"logo_url", S("l.png")>>, <<"theme", S("material")>>,
           <<"content", L(<< S("f1"),
                D(<< <<"type", S("Element")>>, <<"class_name", S("Paragraph")>>,
                     <<"tag", S("p")>>, <<"content", S("a")>> >>) >>)>>,
           <<"custom_css", L(<<>>)>>, <<"custom_js", L(<<>>)>>,
           <<"meta_tags", D(<< <<"a", S("1")>>, <<"b", S("2")>> >>)>> >>),
      D(<< <<"type", S("Page")>>, <<"title", S("T")>>, <<"header_text", S("H")>>,
           <<"logo_url", None>>, <<"theme", S("bootstrap")>>,
           <<"content", L(<< S("f1") >>)>>,
           <<"custom_css", L(<< S("a.css") >>)>>, <<"custom_js", L(<< S("a.js") >>)>>,
           <<"meta_tags", EmptyDict>> >>) }

PageOptionalKeys == {"logo_url", "theme", "content", "custom_css", "custom_js", "meta_tags"}

\* the full mappings less any set of their optional keys
PartialMappings ==
    { Without(d, ks) : d \in FullElementMappings, ks \in SUBSET ElementOptionalKeys }
    \cup { Without(d, ks) : d \in FullPageMappings, ks \in SUBSET PageOptionalKeys }

\* the mapping d with its type replaced
Retyped(d, type) == D(<< <<"type", type>> >> \o Without(d, {"type"}).kv)

\* mappings whose top-level type is neither "Page" nor "Element", or missing
MistypedMappings ==
    { Retyped(d, type) : d \in FullElementMappings \cup FullPageMappings,
                         type \in {S("Widget"), S("page"), S(""), None} }
    \cup { Without(d, {"type"}) : d \in FullElementMappings \cup FullPageMappings }

\* Element mappings naming the classes the registry knows
PluginMappings == UNION { MappingFor(cn) : cn \in {"Timeline", "StatCard", "Gadget"} }

ExportMappings == PartialMappings \cup MistypedMappings \cup PluginMappings \cup ElementMappings

\* from_dict(data)
ExportFromDict ==
    /\ BeforeExport
    /\ \E data \in ExportMappings :
          op' = [name |-> "from_dict", data |-> data, res |-> from_dict(data, "n")]
    /\ UNCHANGED <<elemVars, steps, headVars, pageVars, pluginVars, apiVars, heapVars>>

\* from_json(text) for the JSON text of a mapping
ExportFromJson ==
    /\ BeforeExport
    /\ \E data \in MistypedMappings \cup FullElementMappings \cup FullPageMappings :
          op' = [name |-> "from_json", data |-> data,
                 res |-> from_json(JsonDumps(data).s, "n")]
    /\ UNCHANGED <<elemVars, steps, headVars, pageVars, pluginVars, apiVars, heapVars>>

\* Element mappings that omit content, child_elements and fields: two for
\* every class of the table of from_dict
SparseMappings ==
    UNION { { D(<< <<"type", S("Element")>>, <<"class_name", S(cn)>>, <<"tag", S("div")>>,
                   <<"attributes", EmptyDict>> >>),
              D(<< <<"type", S("Element")>>, <<"class_name", S(cn)>>, <<"tag", S("span")>>,
                   <<"css_class", S("a")>>, <<"id_attr", S("i")>>, <<"style", None>>,
                   <<"attributes", D(<< <<"class", S("a")>> >>)>> >>) } : cn \in class_map }

\* n = from_dict(data), then n.render()
FromDictRendered(data, n) ==
    op' = [name |-> "from_dict_render", data |-> data, node |-> n, res |-> RenderResult(n)]

ExportFromDictRender ==
    /\ BeforeExport
    /\ \E data \in SparseMappings : FromDictRendered(data, from_dict(data, "n"))
    /\ UNCHANGED <<elemVars, steps, headVars, pageVars, pluginVars, apiVars, heapVars>>

\* an Element mapping with the eight keys to_dict writes for a node with a
\* string content
CompleteMapping(cn, tag, css_class, id_attr, style, attributes, content) ==
    D(<< <<"type", S("Element")>>, <<"class_name", S(cn)>>, <<"tag", S(tag)>>,
         <<"css_class", css_class>>, <<"id_attr", id_attr>>, <<"style", style>>,
         <<"attributes", attributes>>, <<"content", S(content)>> >>)

\* two such mappings for every class of the table of from_dict, and one that
\* carries lists of such mappings besides
CompleteMappings ==
    UNION { { CompleteMapping(cn, "div", None, None, None, EmptyDict, "x"),
              CompleteMapping(cn, "span", S("a"), S("i"), S("top:0"),
                              D(<< <<"class", S("a")>>, <<"id", S("i")>> >>), "") }
            : cn \in class_map }
    \cup { D(CompleteMapping("Form", "form", None, None, None, EmptyDict, "").kv
             \o << <<"child_elements",
                     L(<< S("y"), CompleteMapping("Badge", "span", None, None, None,
                                                  EmptyDict, "b") >>)>>,
                   <<"fields",
                     L(<< CompleteMapping("Button", "button", S("k"), None, None,
                                          D(<< <<"type", S("submit")>> >>), "Go") >>)>>,
                   <<"columns", L(<<>>)>> >>) }

\* to_dict(from_dict(data))
ExportFromDictToDict ==
    /\ BeforeExport
    /\ \E data \in CompleteMappings :
          op' = [name |-> "from_dict_to_dict", data |-> data,
                 res |-> to_dict(from_dict(data, "n"))]
    /\ UNCHANGED <<elemVars, steps, headVars, pageVars, pluginVars, apiVars, heapVars>>

ExportNext ==
    \/ RegisterComponent \/ ExportToDict \/ ExportFromDict \/ ExportFromJson
    \/ ExportFromDictRender \/ ExportFromDictToDict

SpecExport == ExportInitState /\ [][ExportNext]_vars

-----------------------------------------------------------------------------
(* Properties of the export manager *)

\* C11: to_dict raises TypeError for every value that is neither an Element
\* nor a Page (a string, a list, a dict, None, a Heading), and never raises
\* TypeError for an Element or a Page.
C11_ToDictTypeGuard ==
    op.name = "to_dict" =>
        (op.res = Err("TypeError")) = (op.arg.t # "obj" \/ op.arg.cls = "Heading")

\* to_dict of a Heading, which has a render method but is no Element
C11_Witness ==
    /\ op.name = "to_dict"
    /\ op.arg = Heading_init("h", S("t"), 1, None, None)
    /\ op.res = Err("TypeError")

\* C12: from_dict and from_json fail (TypeError or DeserializationError)
\* whenever the mapping's top-level type is neither "Page" nor "Element",
\* a missing type included, instead of returning a node.
C12_TypeDiscriminator ==
    (/\ op.name \in {"from_dict", "from_json"}
     /\ GetOr(op.data, "type", None) \notin {S("Page"), S("Element")})
        => op.res \in {Err("TypeError"), Err("DeserializationError")}

\* a mapping without type comes back as a node
C12_Witness ==
    /\ op.name = "from_dict"
    /\ ~Has(op.data, "type")
    /\ Has(op.data, "title")
    /\ IsObj(op.res) /\ op.res.cls = "Element"

\* custom_css and custom_js are absent from the mapping, or empty
NoCustomEntries(data) ==
    /\ GetOr(data, "custom_css", L(<<>>)) = L(<<>>)
    /\ GetOr(data, "custom_js", L(<<>>)) = L(<<>>)

\* C13: from_dict does not fail because an optional key is absent.  An
\* Element mapping lacking any of tag, css_class, id_attr, style, attributes,
\* content, child_elements, fields, columns is reconstructed with tag 'div',
\* empty attributes and css_class, id_attr, style None in place of the absent
\* keys, and without the absent content or list fields; a Page mapping with
\* title and header_text lacking any of logo_url, theme, content, custom_css,
\* custom_js, meta_tags is reconstructed as a Page, with no logo, no fragment
\* and no meta tag in place of the absent keys.
C13_OptionalKeyDefaults ==
    op.name = "from_dict" =>
        /\ GetOr(op.data, "type", None) = S("Element") =>
              /\ IsObj(op.res)
              /\ op.res.d.tag = (IF Has(op.data, "tag") THEN Get(op.data, "tag") ELSE S("div"))
              /\ op.res.d.attributes = (IF Has(op.data, "attributes")
                                         THEN Get(op.data, "attributes") ELSE EmptyDict)
              /\ \A k \in {"css_class", "id_attr", "style"} :
                    op.res.d[k] = (IF Has(op.data, k) THEN Get(op.data, k) ELSE None)
              /\ \A k \in {"content", "child_elements", "fields", "columns"} :
                    HasAttr(op.res, k) = Has(op.data, k)
        /\ (/\ GetOr(op.data, "type", None) = S("Page")
            /\ Has(op.data, "title") /\ Has(op.data, "header_text")
            /\ NoCustomEntries(op.data)) =>
              /\ IsObj(op.res) /\ op.res.cls = "Page"
              /\ ~Has(op.data, "logo_url") => op.res.d.logo_url = None
              /\ ~Has(op.data, "content") => op.res.d.body_content = L(<<>>)
              /\ ~Has(op.data, "meta_tags") => op.res.d.meta_tags = EmptyDict

\* a Page mapping holding title and header_text only
C13_Witness ==
    /\ op.name = "from_dict"
    /\ op.data = D(<< <<"type", S("Page")>>, <<"title", S("T")>>, <<"header_text", S("H")>> >>)
    /\ IsObj(op.res) /\ op.res.cls = "Page"
    /\ op.res.d.title = S("T") /\ op.res.d.header_text = S("H")

\* the fragments the content items of a Page mapping stand for
ExpectedFragments(items) ==
    [i \in 1..Len(items) |->
        IF IsDict(items[i]) THEN render(from_dict(items[i], "x")).res ELSE items[i]]

\* the page carries the entry of custom_css (a link or inline CSS) or of
\* custom_js (a script)
Carries(p, entry) ==
    \/ \E i \in 1..Len(p.d.css_links.l) : p.d.css_links.l[i] = entry
    \/ \E i \in 1..Len(p.d.scripts.l) : p.d.scripts.l[i] = entry
    \/ IsStr(p.d.custom_css) /\ Contains(p.d.custom_css.s, entry.s)

\* C16: from_dict on a Page mapping returns, without error, a Page whose
\* title, header_text and logo_url are the mapping's, whose body holds one
\* fragment per content item in order (a node item as its render(), a string
\* item as itself), whose meta_tags are the mapping's, and which carries every
\* entry of the mapping's custom_css and custom_js lists.
C16_PageReconstruction ==
    (/\ op.name = "from_dict"
     /\ GetOr(op.data, "type", None) = S("Page")
     /\ Has(op.data, "title") /\ Has(op.data, "header_text")) =>
        /\ IsObj(op.res) /\ op.res.cls = "Page"
        /\ op.res.d.title = Get(op.data, "title")
        /\ op.res.d.header_text = Get(op.data, "header_text")
        /\ op.res.d.logo_url = GetOr(op.data, "logo_url", None)
        /\ op.res.d.body_content
              = L(ExpectedFragments(GetOr(op.data, "content", L(<<>>)).l))
        /\ op.res.d.meta_tags = GetOr(op.data, "meta_tags", EmptyDict)
        /\ \A k \in {"custom_css", "custom_js"} :
              \A i \in 1..Len(GetOr(op.data, k, L(<<>>)).l) :
                  Carries(op.res, GetOr(op.data, k, L(<<>>)).l[i])

\* a Page mapping with one custom_css entry: from_dict raises
C16_Witness ==
    /\ op.name = "from_dict"
    /\ GetOr(op.data, "type", None) = S("Page")
    /\ GetOr(op.data, "custom_css", L(<<>>)) = L(<< S("a.css") >>)
    /\ op.res = Err("AttributeError")

\* C19: the class from_dict returns is decided by its fixed table alone: a
\* class_name of the table gives that class and any other gives the generic
\* Element, whatever register_component calls were made on the plugin
\* registry, those for Timeline, StatCard and CodeBlock included.
C19_ClosedVariantRegistry ==
    (op.name = "from_dict" /\ GetOr(op.data, "type", None) = S("Element")) =>
        /\ IsObj(op.res)
        /\ op.res.cls =
              (IF GetOr(op.data, "class_name", S("Element")).s \in
                    {"Element", "Container", "Div", "Paragraph", "Form", "Input", "Button",
                     "TextArea", "Select", "Row", "Column", "Flex", "Alert", "Badge",
                     "ProgressBar", "Accordion", "Modal"}
               THEN GetOr(op.data, "class_name", S("Element")).s
               ELSE "Element")

\* NoSuchWidget and Div were registered as Gadget; a mapping naming the
\* built-in Timeline still comes back as a generic Element
C19_Witness ==
    /\ op.name = "from_dict"
    /\ get_component(components, "NoSuchWidget") = S("Gadget")
    /\ get_component(components, "Div") = S("Gadget")
    /\ get_component(components, "Timeline") = S("Timeline")
    /\ GetOr(op.data, "class_name", None) = S("Timeline")
    /\ IsObj(op.res) /\ op.res.cls = "Element"

\* C21: for every class_name of the table of from_dict and every Element
\* mapping that omits the optional keys content, child_elements and fields,
\* from_dict succeeds and render() of what it returns gives a string, it does
\* not raise.
C21_RenderAfterReconstruction ==
    op.name = "from_dict_render" =>
        /\ IsObj(op.node)
        /\ IsStr(op.res)

\* a Paragraph reconstructed from a mapping without content: render() raises
C21_Witness ==
    /\ op.name = "from_dict_render"
    /\ Get(op.data, "class_name") = S("Paragraph")
    /\ ~Has(op.data, "content")
    /\ IsObj(op.node) /\ op.node.cls = "Paragraph"
    /\ op.res = Err("AttributeError")

\* the attributes _dict_to_element assigns whatever the class
AssignedFields == {"tag", "css_class", "id_attr", "style", "attributes"}

\* data.get(key, default) of lines 191-195
MappingValue(data, key) ==
    GetOr(data, key, CASE key = "tag" -> S("div")
                       [] key = "attributes" -> EmptyDict
                       [] OTHER -> None)

\* the from_dict calls on an Element mapping that names a class of the table
NamesVariant(data) ==
    /\ IsDict(data)
    /\ GetOr(data, "type", None) # S("Page")
    /\ IsStr(GetOr(data, "class_name", None))
    /\ Get(data, "class_name").s \in class_map

\* C23: from_dict with a class_name of the table returns an instance of that
\* class whose tag, css_class, id_attr, style and attributes are exactly the
\* mapping's values, with none of the defaults of the class's constructor
\* applied: a Button with attributes {} gets no 'btn btn-primary' class and no
\* type attribute, a Paragraph with tag span keeps the tag span.
C23_ConstructorBypass ==
    (op.name = "from_dict" /\ NamesVariant(op.data)) =>
        /\ IsObj(op.res)
        /\ op.res.cls = Get(op.data, "class_name").s
        /\ \A key \in AssignedFields :
              HasAttr(op.res, key) /\ op.res.d[key] = MappingValue(op.data, key)

\* a Button rebuilt from a mapping with tag div and attributes {}
C23_Witness ==
    /\ op.name = "from_dict" /\ NamesVariant(op.data)
    /\ Get(op.data, "class_name") = S("Button")
    /\ GetOr(op.data, "attributes", None) = EmptyDict
    /\ GetOr(op.data, "tag", None) = S("div")
    /\ IsObj(op.res) /\ op.res.cls = "Button"
    /\ op.res.d.tag = S("div")
    /\ op.res.d.attributes = EmptyDict

-----------------------------------------------------------------------------
(* Properties of the setters and of the encoding of a node *)

FluentSetters ==
    {"set_attribute", "add_class", "set_id", "set_style", "add_style", "set_event"}

\* the attribute key a call of the setter names
NamesKey(name, key) ==
    CASE name = "add_class" -> key = "class"
      [] name = "set_id" -> key = "id"
      [] name \in {"set_style", "add_style"} -> key = "style"
      [] name = "set_event" -> key = "onclick"
      [] OTHER -> key \in {"data-x", "class"}

\* C14: each of set_attribute, add_class, set_id, set_style, add_style and
\* set_event returns the very node it was called on, changes only the one
\* attribute key it names, and leaves the class, the tag, the content, every
\* other field and every other attribute of the node unchanged.
C14_FluentSetters ==
    [][(op'.name \in FluentSetters /\ steps' = steps + 1) =>
          /\ NamesKey(op'.name, op'.key)
          /\ op'.ret = node.at /\ node'.at = node.at /\ node'.cls = node.cls
          /\ DOMAIN node'.d = DOMAIN node.d
          /\ \A f \in DOMAIN node.d \ {"attributes"} : node'.d[f] = node.d[f]
          /\ Has(node'.d.attributes, op'.key)
          /\ \A k \in (Keys(node.d.attributes) \cup Keys(node'.d.attributes)) \ {op'.key} :
                /\ Has(node.d.attributes, k) /\ Has(node'.d.attributes, k)
                /\ Get(node'.d.attributes, k) = Get(node.d.attributes, k)]_vars

\* set_id on a node that has a class and content
C14_Witness ==
    /\ op.name = "set_id" /\ op.key = "id" /\ op.ret = node.at
    /\ node.cls = "Div" /\ node.d.tag = S("div") /\ node.d.content = S("")
    /\ node.d.attributes = D(<< <<"class", S("box")>>, <<"id", S("j")>> >>)

\* the last character of c that is no whitespace, "" when there is none
LastVisible(c) ==
    IF SkipWsBack(c, Len(c)) = 0 THEN "" ELSE Ch(c, SkipWsBack(c, Len(c)))

\* the style of the node, "" when it has none
StyleOf(n) == GetOr(n.d.attributes, "style", S("")).s

\* C15: add_style(s) on a node whose style c is non-empty sets the style to
\* c, a ';' separator and s when c, trailing whitespace ignored, does not end
\* with ';', and to c and s with no second ';' when it does (one space follows
\* c in both cases); on a node with no style or an empty one it sets the
\* style to exactly s.
C15_AddStyleSeparator ==
    [][(op'.name = "add_style" /\ steps' = steps + 1) =>
          StyleOf(node') =
              (IF StyleOf(node) = "" THEN op'.arg.s
               ELSE IF LastVisible(StyleOf(node)) = ";"
               THEN StyleOf(node) \o " " \o op'.arg.s
               ELSE StyleOf(node) \o "; " \o op'.arg.s)]_vars

\* add_style after set_style("margin:0; "): no second ';'
C15_Witness ==
    /\ op.name = "add_style" /\ steps = 2
    /\ StyleOf(node) = "margin:0;  top:0"

\* what to_dict makes of the item of a list, or of a single content
EncodedAs(item, enc) ==
    IF IsObj(item)
    THEN /\ IsDict(enc)
         /\ GetOr(enc, "type", None) = S("Element")
         /\ GetOr(enc, "class_name", None) = S(item.cls)
    ELSE enc = item

\* C18: for a node whose content, child_elements, fields or columns is a list
\* mixing nodes and plain strings, to_dict returns a mapping that holds a list
\* of the same length and order, each node replaced by its own mapping with
\* type "Element" and its concrete class name and each string kept as it is;
\* a content that is a single node becomes one nested mapping.
C18_EncodingRecursion ==
    op.name = "to_dict" =>
        /\ IsDict(op.res)
        /\ \A attr \in {"content", "child_elements", "fields", "columns"} :
              (HasAttr(node, attr) /\ IsList(node.d[attr])) =>
                  /\ IsList(GetOr(op.res, attr, None))
                  /\ Len(Get(op.res, attr).l) = Len(node.d[attr].l)
                  /\ \A i \in 1..Len(node.d[attr].l) :
                        EncodedAs(node.d[attr].l[i], Get(op.res, attr).l[i])
        /\ (HasAttr(node, "content") /\ IsObj(node.d.content)) =>
              EncodedAs(node.d.content, GetOr(op.res, "content", None))

\* a Form that from_dict returned, given a plain string as field: to_dict raises
C18_Witness ==
    /\ op.name = "to_dict" /\ origin = "from_dict"
    /\ node.cls = "Form" /\ HasAttr(node, "css_class")
    /\ HasAttr(node, "fields") /\ Len(node.d.fields.l) = 2
    /\ IsObj(node.d.fields.l[1]) /\ node.d.fields.l[2] = S("y")
    /\ op.res = Err("AttributeError")

-----------------------------------------------------------------------------
(* Properties of render() as a reader *)

\* the tag, the attributes, the content and the child lists of a node
NodeFields == {"tag", "attributes", "content", "child_elements", "fields", "columns", "items", "options"}

FieldsOf(n) == [a \in NodeFields \cap DOMAIN n.d |-> n.d[a]]

\* C22: for every node variant, render() leaves the node's tag, attributes,
\* content and child lists exactly as they were before the call.
C22_RenderReadOnly ==
    [][op'.name = "render" => FieldsOf(node') = FieldsOf(node)]_vars

\* an Accordion with one item has been rendered: its content now holds the
\* markup of the item, which the constructor and add_item had left empty
C22_Witness ==
    /\ op.name = "render" /\ IsStr(op.res)
    /\ node.cls = "Accordion" /\ origin = "other"
    /\ Len(node.d.items.l) = 1
    /\ node.d.content = node.d.items.l[1]
    /\ node.d.content # S("")

-----------------------------------------------------------------------------
(* Properties of the components *)

\* s holds pieces[k], pieces[k+1], ... in this order, from position from on
RECURSIVE ContainsInOrder(_, _, _, _)
ContainsInOrder(s, pieces, k, from) ==
    IF k > Len(pieces) THEN TRUE
    ELSE \E p \in Occurrences(pieces[k], s) :
            /\ p >= from
            /\ ContainsInOrder(s, pieces, k + 1, p + Len(pieces[k]))

\* the markup of the items of an Accordion
ItemsOf(n) == [i \in 1..Len(n.d.items.l) |-> n.d.items.l[i].s]

\* C24: for the ComponentBase variants that keep their markup in content,
\* render() holds that markup: Accordion.render() contains every item added
\* with add_item, in insertion order, and Alert(message).render() contains
\* message (the Alert the model constructs has the message "careful").
C24_ComponentContentRendered ==
    (op.name = "render" /\ origin # "from_dict" /\ IsStr(op.res)) =>
        /\ node.cls = "Accordion" => ContainsInOrder(op.res.s, ItemsOf(node), 1, 1)
        /\ node.cls = "Alert" => Contains(op.res.s, "careful")

\* Alert("careful", dismissible=True).render() is the empty <div>
C24_Witness ==
    /\ op.name = "render" /\ origin = "setters"
    /\ node.cls = "Alert" /\ node.d.content.s # ""
    /\ Contains(node.d.content.s, "careful")
    /\ op.res = S("<div class=\"alert alert-info alert-dismissible fade show\"></div>")

\* Accordion().add_item(...).add_item(...).render() is the empty <div>
C24_WitnessAccordion ==
    /\ op.name = "render" /\ origin = "other"
    /\ node.cls = "Accordion" /\ Len(node.d.items.l) = 2
    /\ op.res = S("<div class=\"accordion\" id=\"acc\"></div>")

-----------------------------------------------------------------------------
(* Properties of the Select *)

\* the options of a Select that were added with selected = b
AddedWith(n, b) ==
    {i \in 1..Len(n.d.options.l) : Get(n.d.options.l[i], "selected") = S(BoolStr(b))}

\* C26: an option added with Select.add_option(value, text, selected=False) is
\* rendered without the selected attribute; only the options added with
\* selected=True are rendered with it.
C26_SelectOptionSelection ==
    (op.name = "render" /\ origin # "from_dict" /\ node.cls = "Select" /\ IsStr(op.res)) =>
        /\ Count("<option ", op.res.s) = Len(node.d.options.l)
        /\ Count(" selected>", op.res.s) = Cardinality(AddedWith(node, TRUE))

\* Select(...).add_option("v", "Text", False).render() marks the option selected
C26_Witness ==
    /\ op.name = "render" /\ origin = "other" /\ node.cls = "Select"
    /\ Len(node.d.options.l) = 1 /\ AddedWith(node, FALSE) = {1}
    /\ Contains(op.res.s, "<option value=\"v\" selected>Text</option>")

-----------------------------------------------------------------------------
(* Properties of the encoding of a Page *)

\* the themes of the set_theme calls of the log, in call order
ThemesApplied(log) ==
    LET marks == SelectSeq(log, IsThemeMark)
    IN [i \in 1..Len(marks) |-> SubSeq(marks[i], Len(SetThemeMark) + 1, Len(marks[i]))]

\* C17: after any sequence of add_content, add_meta_tag and set_theme calls,
\* to_dict(page) returns a mapping with type "Page", the page's title and
\* header_text, its meta_tags, the theme last applied with set_theme, and a
\* content list with exactly one entry per body fragment in insertion order.
C17_PageEncoding ==
    op.name = "to_dict_page" =>
        /\ IsDict(op.res)
        /\ GetOr(op.res, "type", None) = S("Page")
        /\ GetOr(op.res, "title", None) = page.d.title
        /\ GetOr(op.res, "header_text", None) = page.d.header_text
        /\ GetOr(op.res, "meta_tags", None) = page.d.meta_tags
        /\ Len(ThemesApplied(linkLog)) > 0 =>
              GetOr(op.res, "theme", None)
                  = S(ThemesApplied(linkLog)[Len(ThemesApplied(linkLog))])
        /\ IsList(GetOr(op.res, "content", None))
        /\ Len(Get(op.res, "content").l) = Len(fragLog)
        /\ \A i \in 1..Len(fragLog) :
              \/ Get(op.res, "content").l[i] = S(fragLog[i])
              \/ IsDict(Get(op.res, "content").l[i])

\* to_dict of a page after add_content and set_theme raises
C17_Witness ==
    /\ op.name = "to_dict_page"
    /\ fragLog = << "f1" >>
    /\ ThemesApplied(linkLog) = << "material" >>
    /\ op.res = Err("AttributeError")

-----------------------------------------------------------------------------
(* routes/api.py: api_generate *)

\* jsonify(body), status
JsonResponse(status, body) == [escaped |-> FALSE, status |-> status, body |-> body]

\* jsonify({'error': msg}), status
ErrorResponse(status, msg) == JsonResponse(status, D(<< <<"error", S(msg)>> >>))

\* an exception that leaves api_generate: the handler returns no response
Escapes(msg) == [escaped |-> TRUE, status |-> 0, body |-> S(msg)]

\* except Exception as e: the answer for an exception with str(e) = msg
GenerateError(msg) == ErrorResponse(500, "Error generating page: " \o msg)

\* what exec(code, exec_globals) does for a program: the exception it raises
\* (none, or str(e)), whether that exception is outside the Exception
\* hierarchy, and what exec_globals['page'] is afterwards
Executed(raised, base, bound) == [raised |-> raised, base |-> base, page |-> bound]

ProgramPage == Page_init("p", S("T"), S("H"), None, None, None, "bootstrap", None, TRUE)

BlankPrograms == {"", "   ", " \n\t"}

PagePrograms == {"page = Page('T', 'H')", "page = Page('T', 'H')\npage.add_content('f1')"}

NonPagePrograms == {"x = 1", "page = 'text'", "page = []", "page = Heading('t')"}

RaisingPrograms == {"raise ValueError('boom')", "page = Page('T', 'H')\n1/0"}

ExitingPrograms == {"raise SystemExit('bye')"}

BrokenPagePrograms == {"page = Page('T', 'H')\npage.body_content = None"}

Programs ==
    BlankPrograms \cup PagePrograms \cup NonPagePrograms \cup RaisingPrograms
    \cup ExitingPrograms \cup BrokenPagePrograms

exec(code) ==
    CASE code = "page = Page('T', 'H')" -> Executed(None, FALSE, ProgramPage)
      [] code = "page = Page('T', 'H')\npage.add_content('f1')" ->
            Executed(None, FALSE, Page_add_content(ProgramPage, S("f1")).page)
      [] code = "x = 1" -> Executed(None, FALSE, None)
      [] code = "page = 'text'" -> Executed(None, FALSE, S("text"))
      [] code = "page = []" -> Executed(None, FALSE, L(<<>>))
      [] code = "page = Heading('t')" ->
            Executed(None, FALSE, Heading_init("h", S("t"), 1, None, None))
      [] code = "raise ValueError('boom')" -> Executed(S("boom"), FALSE, None)
      [] code = "page = Page('T', 'H')\n1/0" ->
            Executed(S("division by zero"), FALSE, ProgramPage)
      [] code = "raise SystemExit('bye')" -> Executed(S("bye"), TRUE, None)
      [] code = "page = Page('T', 'H')\npage.body_content = None" ->
            Executed(None, FALSE, SetAttr(ProgramPage, "body_content", None))

\* page.generate_html(): "\n".join(self.body_content) raises for a
\* body_content that is no list
page_generate_html(p) ==
    IF IsList(p.d.body_content)
    THEN [raised |-> None, html |-> generate_html(p)]
    ELSE [raised |-> S("can only join an iterable"), html |-> ""]

\* code.strip()
Strip(s) == LStrip(RStrip(s))

SafeTitleAlphabet == "abcdefghijklmnopqrstuvwxyzABCDEFGHIJKLMNOPQRSTUVWXYZ0123456789_-"

SafeTitleChars == {SubSeq(SafeTitleAlphabet, i, i) : i \in 1..Len(SafeTitleAlphabet)}

\* re.sub(r'[^a-zA-Z0-9_-]', '', title.replace(' ', '_'))
safe_title(title) ==
    Concat(SelectSeq([i \in 1..Len(title) |->
                         IF SubSeq(title, i, i) = " " THEN "_" ELSE SubSeq(title, i, i)],
                     LAMBDA c : c \in SafeTitleChars))

\* f"{safe_title}_{uuid.uuid4().hex[:8]}.html"
Filename(title, hex) == safe_title(title) \o "_" \o hex \o ".html"

\* the GeneratedPage row; on_disk tells whether the file was written
GeneratedPage(id, title, filename, code, html_content, on_disk) ==
    [id |-> id, title |-> title, filename |-> filename, code |-> code,
     html_content |-> html_content, on_disk |-> on_disk]

\* the id the store gives a new row: one more than the largest id it holds
NextId(rows) ==
    IF rows = <<>> THEN 1
    ELSE 1 + CHOOSE m \in {rows[i].id : i \in 1..Len(rows)} :
                 \A i \in 1..Len(rows) : rows[i].id <= m

\* lines 54-76: the answer once the HTML is there.  io is what the
\* environment does to the commit and to the file write.
Saved(title, code, html, hex, io, rows) ==
    IF io = "commit fails"
    THEN [resp |-> GenerateError("database is locked"), rows |-> rows]
    ELSE IF io = "write fails"
    THEN [resp |-> GenerateError("No such file or directory"),
          rows |-> Append(rows, GeneratedPage(NextId(rows), title, Filename(title.s, hex),
                                              code, html, FALSE))]
    ELSE [resp |-> JsonResponse(200, D(<< <<"html", S(html)>>, <<"title", title>>,
                                          <<"id", Num(NextId(rows))>>,
                                          <<"filename", S(Filename(title.s, hex))>> >>)),
          rows |-> Append(rows, GeneratedPage(NextId(rows), title, Filename(title.s, hex),
                                              code, html, TRUE))]

Responded(data, html, hex, io, rows) ==
    IF Truthy(GetOr(data, "save", Bool(TRUE)))
    THEN Saved(GetOr(data, "title", S("Generated Page")), Get(data, "code").s, html,
               hex, io, rows)
    ELSE [resp |-> JsonResponse(200, D(<< <<"html", S(html)>>,
                                          <<"title", GetOr(data, "title", S("Generated Page"))>> >>)),
          rows |-> rows]

\* line 47 and what follows it
Generated(data, h, hex, io, rows) ==
    IF h.raised # None THEN [resp |-> GenerateError(h.raised.s), rows |-> rows]
    ELSE Responded(data, h.html, hex, io, rows)

\* isinstance(page, Page)
IsPage(v) == IsObj(v) /\ v.cls = "Page"

\* the page check of lines 42-44
PageCheck(v) == Truthy(v) /\ IsPage(v)

\* lines 39-47: x is what exec did
AfterExec(data, x, hex, io, rows) ==
    IF x.raised # None
    THEN [resp |-> IF x.base THEN Escapes(x.raised.s) ELSE GenerateError(x.raised.s),
          rows |-> rows]
    ELSE IF ~PageCheck(x.page)
    THEN [resp |-> ErrorResponse(400,
              "Code must create a Page object and assign it to variable \"page\""),
          rows |-> rows]
    ELSE Generated(data, page_generate_html(x.page), hex, io, rows)

\* api_generate for request.get_json() = data, with the GeneratedPage rows
\* of the database before the call; the result is the answer and the rows after
api_generate(data, hex, io, rows) ==
    IF ~Truthy(data)
    THEN [resp |-> ErrorResponse(400, "No JSON data provided"), rows |-> rows]
    ELSE IF Strip(GetOr(data, "code", S("")).s) = ""
    THEN [resp |-> ErrorResponse(400, "Code is required"), rows |-> rows]
    ELSE AfterExec(data, exec(Get(data, "code").s), hex, io, rows)

-----------------------------------------------------------------------------
(* routes/api.py: api_delete_page *)

\* GeneratedPage.query.get_or_404(page_id): the rows with that id
RowsWithId(rows, page_id) == {i \in 1..Len(rows) : rows[i].id = page_id}

\* the answer of abort(404)
NotFound == [escaped |-> FALSE, status |-> 404, body |-> S("Not Found")]

\* os.remove(file_path): the file of row i is gone
Removed(rows, i) == [rows EXCEPT ![i].on_disk = FALSE]

\* db.session.delete(page) and the commit: row i is gone
Deleted(rows, i) == SubSeq(rows, 1, i - 1) \o SubSeq(rows, i + 1, Len(rows))

\* lines 116-127 for the row i found.  io is what the environment does to
\* os.remove and to the commit; nothing catches what they raise.
DeleteRow(i, io, rows) ==
    IF io = "remove fails" /\ rows[i].on_disk
    THEN [resp |-> Escapes("Permission denied"), rows |-> rows]
    ELSE IF io = "commit fails"
    THEN [resp |-> Escapes("database is locked"), rows |-> Removed(rows, i)]
    ELSE [resp |-> JsonResponse(200, D(<< <<"message",
                       S("Page \"" \o rows[i].title.s \o "\" deleted successfully")>> >>)),
          rows |-> Deleted(rows, i)]

api_delete_page(page_id, io, rows) ==
    IF RowsWithId(rows, page_id) = {}
    THEN [resp |-> NotFound, rows |-> rows]
    ELSE DeleteRow(CHOOSE i \in RowsWithId(rows, page_id) : TRUE, io, rows)

-----------------------------------------------------------------------------
(* Operations of the generate endpoint *)

ApiInitState ==
    /\ node = NoObj /\ origin = "none"
    /\ op = [name |-> "init"] /\ steps = 0
    /\ heading = NoObj /\ hres = NoResult
    /\ page = NoObj
    /\ metaLog = <<>> /\ linkLog = <<>> /\ scriptLog = <<>> /\ fragLog = <<>>
    /\ components = BuiltinComponents /\ hooks = EmptyDict /\ generated_pages = <<>>
    /\ heap = << >>

CodeOnly(code) == D(<< <<"code", S(code)>> >>)

\* the values request.get_json() returns
Requests ==
    {None, EmptyDict, D(<< <<"title", S("My Page!")>> >>)}
    \cup { CodeOnly(code) : code \in Programs }
    \cup { D(<< <<"code", S("page = Page('T', 'H')")>>, <<"title", S("My Page!")>>,
                <<"save", save>> >>) : save \in {Bool(TRUE), Bool(FALSE)} }
    \cup { D(<< <<"code", S(code)>>, <<"save", Bool(FALSE)>> >>) :
               code \in PagePrograms \cup BrokenPagePrograms \cup RaisingPrograms }

\* uuid.uuid4().hex[:8]
Hexes == {"a1b2c3d4", "00000000"}

IoOutcomes == {"ok", "commit fails", "write fails"}

\* what of the hex and of the environment a request gets to use
Saves(data) ==
    /\ Truthy(data) /\ GetOr(data, "code", S("")).s \in PagePrograms
    /\ Truthy(GetOr(data, "save", Bool(TRUE)))

Reaches(data) ==
    IF Saves(data)
    THEN Hexes \X IoOutcomes
    ELSE {<<"a1b2c3d4", "ok">>}

Answered(data, r) ==
    /\ op' = [name |-> "api_generate", data |-> data, resp |-> r.resp]
    /\ generated_pages' = r.rows

\* POST /generate
\* uuid4 gives a name no stored row has
Fresh(data, hex, rows) ==
    Saves(data) =>
        \A i \in 1..Len(rows) :
            rows[i].filename # Filename(GetOr(data, "title", S("Generated Page")).s, hex)

ApiGenerate ==
    /\ steps < MaxSteps
    /\ \E data \in Requests : \E e \in Reaches(data) :
          /\ Fresh(data, e[1], generated_pages)
          /\ Answered(data, api_generate(data, e[1], e[2], generated_pages))
    /\ steps' = steps + 1
    /\ UNCHANGED <<elemVars, headVars, pageVars, pluginVars, heapVars>>

\* the ids a DELETE request names
PageIds == 1..MaxSteps

DeleteOutcomes == {"ok", "remove fails", "commit fails"}

\* DELETE /pages/<page_id>
ApiDeletePage ==
    /\ steps < MaxSteps
    /\ \E page_id \in PageIds : \E io \in DeleteOutcomes :
          /\ op' = [name |-> "api_delete_page", page_id |-> page_id,
                    resp |-> api_delete_page(page_id, io, generated_pages).resp]
          /\ generated_pages' = api_delete_page(page_id, io, generated_pages).rows
    /\ steps' = steps + 1
    /\ UNCHANGED <<elemVars, headVars, pageVars, pluginVars, heapVars>>

ApiNext == ApiGenerate \/ ApiDeletePage

SpecApi == ApiInitState /\ [][ApiNext]_vars

-----------------------------------------------------------------------------
(* Properties of the themes of a Page *)

\* the stylesheet links of a theme, and the links a page holds
ThemeLinks(theme) == {ThemeCssLinks(theme)[i] : i \in 1..Len(ThemeCssLinks(theme))}

LinksOf(p) == {p.d.css_links.l[i].s : i \in 1..Len(p.d.css_links.l)}

\* the theme of the last set_theme call of a log
LastTheme(log) == ThemesApplied(log)[Len(ThemesApplied(log))]

\* the links of the themes applied before the last call of the log: those of
\* the earlier set_theme calls and the one the constructor registers
EarlierThemeLinks(log) ==
    UNION {ThemeLinks(ThemesApplied(log)[i]) : i \in 1..(Len(ThemesApplied(log)) - 1)}
    \cup {BootstrapDarkCss}

\* C27: after any sequence of set_theme calls on a Page, css_links contains
\* the stylesheet link(s) of the most recently set theme and no stylesheet
\* link of any earlier theme, and applying the same theme twice in a row
\* leaves css_links and scripts the same as applying it once.
C27_ThemeSwitching ==
    [][op'.name = "set_theme" =>
          /\ ThemeLinks(LastTheme(linkLog')) \subseteq LinksOf(page')
          /\ (EarlierThemeLinks(linkLog') \ ThemeLinks(LastTheme(linkLog')))
                 \cap LinksOf(page') = {}
          /\ (op.name = "set_theme" /\ LastTheme(linkLog) = LastTheme(linkLog')) =>
                /\ page'.d.css_links = page.d.css_links
                /\ page'.d.scripts = page.d.scripts]_vars

\* set_theme("material") then set_theme("tailwind"): the links of both are held
C27_Witness ==
    /\ op.name = "set_theme"
    /\ ThemesApplied(linkLog) = <<"material", "tailwind">>
    /\ LinksOf(page) = {MaterialIconsCss, MaterializeCss, TailwindCss}

\* set_theme("material") twice: its links and its script are held twice
C27_WitnessTwice ==
    /\ op.name = "set_theme"
    /\ ThemesApplied(linkLog) = <<"material", "material">>
    /\ page.d.css_links = L(<<S(MaterialIconsCss), S(MaterializeCss),
                              S(MaterialIconsCss), S(MaterializeCss)>>)
    /\ page.d.scripts.l[Len(page.d.scripts.l)] = S(MaterializeJs)
    /\ page.d.scripts.l[Len(page.d.scripts.l) - 1] = S(MaterializeJs)

-----------------------------------------------------------------------------
(* Operations on the hooks of the plugin registry *)

HooksInitState ==
    /\ node = NoObj /\ origin = "none"
    /\ op = [name |-> "init"] /\ steps = 0
    /\ heading = NoObj /\ hres = NoResult
    /\ page = NoObj
    /\ metaLog = <<>> /\ linkLog = <<>> /\ scriptLog = <<>> /\ fragLog = <<>>
    /\ components = BuiltinComponents /\ hooks = EmptyDict /\ generated_pages = <<>>
    /\ heap = << >>

Events == {"before_render", "after_render"}

Callbacks == {Callback("greet"), Callback("nothing"), Callback("fail"), Callback("interrupt")}

\* the callbacks registered so far, whatever the event
RegisteredHooks == Concat([i \in 1..Len(hooks.kv) |-> hooks.kv[i][2].l])

\* plugin_registry.register_hook(event, callback)
RegisterHook ==
    /\ Len(RegisteredHooks) < MaxHooks
    /\ \E event \in Events : \E callback \in Callbacks :
          /\ hooks' = register_hook(hooks, event, callback)
          /\ op' = [name |-> "register_hook", event |-> event, ret |-> callback]
    /\ UNCHANGED <<elemVars, steps, headVars, pageVars, components, apiVars, heapVars>>

\* plugin_registry.execute_hooks(event)
ExecuteHooks ==
    /\ \E event \in Events :
          op' = [name |-> "execute_hooks", event |-> event, out |-> execute_hooks(hooks, event)]
    /\ UNCHANGED <<elemVars, steps, headVars, pageVars, pluginVars, apiVars, heapVars>>

HooksNext == RegisterHook \/ ExecuteHooks

SpecHooks == HooksInitState /\ [][HooksNext]_vars

-----------------------------------------------------------------------------
(* Properties of the hooks *)

\* the hooks registered for an event, in registration order
HooksFor(event) == GetOr(hooks, event, L(<<>>)).l

Returns(hook) == call(hook).raised = None

Interrupts(hook) == call(hook).raised # None /\ call(hook).base

\* the values returned by the hooks of hs that do not raise, in order
ResultsOf(hs) ==
    [i \in 1..Len(SelectSeq(hs, Returns)) |-> call(SelectSeq(hs, Returns)[i]).value]

\* C25 as stated: execute_hooks(event) calls every hook registered for the
\* event, in registration order; a hook that raises does not stop the hooks
\* registered after it; the returned list holds the results of exactly the
\* hooks that did not raise, in registration order, and is empty for an event
\* with no hooks.
C25_HookExecution ==
    op.name = "execute_hooks" =>
        /\ op.out.raised = None
        /\ op.out.called = HooksFor(op.event)
        /\ op.out.results = ResultsOf(HooksFor(op.event))
        /\ HooksFor(op.event) = <<>> => op.out.results = <<>>

\* the index of the first hook of hs raising outside Exception, 0 when none does
FirstInterrupt(hs) ==
    IF \E i \in 1..Len(hs) : Interrupts(hs[i])
    THEN CHOOSE i \in 1..Len(hs) : Interrupts(hs[i]) /\ \A j \in 1..(i - 1) : ~Interrupts(hs[j])
    ELSE 0

\* C25 as amended: the hooks are called in registration order; a hook raising
\* an exception derived from Exception does not stop the hooks after it, and
\* when no hook raises anything else the list returned holds the results of
\* exactly the hooks that did not raise, in registration order (empty for an
\* event with no hooks).  An exception outside Exception leaves execute_hooks
\* at once: the hooks after it are not called and no list is returned.
C25_HookExecutionCaught ==
    op.name = "execute_hooks" =>
        IF FirstInterrupt(HooksFor(op.event)) = 0
        THEN /\ op.out.raised = None
             /\ op.out.called = HooksFor(op.event)
             /\ op.out.results = ResultsOf(HooksFor(op.event))
             /\ HooksFor(op.event) = <<>> => op.out.results = <<>>
        ELSE /\ op.out.raised
                   = call(HooksFor(op.event)[FirstInterrupt(HooksFor(op.event))]).raised
             /\ op.out.called
                   = SubSeq(HooksFor(op.event), 1, FirstInterrupt(HooksFor(op.event)))

\* a raising hook registered before two others: all three are called and the
\* results of the two are returned
C25_Witness ==
    /\ op.name = "execute_hooks"
    /\ HooksFor(op.event) = <<Callback("fail"), Callback("greet"), Callback("nothing")>>
    /\ op.out.called = HooksFor(op.event)
    /\ op.out.results = <<S("hello"), None>>
    /\ op.out.printed = <<"Hook execution error for " \o op.event \o ": boom">>
    /\ op.out.raised = None

-----------------------------------------------------------------------------
(* Objects shared by reference: the mapping handed to from_dict and the      *)
(* nodes built from it.  heap maps an address to the object stored there; a  *)
(* field holding Ref(a) names the object at a, which other fields may name   *)
(* too.  A value written inline is an object nothing else refers to.         *)

Ref(a) == [t |-> "ref", a |-> a]
IsRef(v) == v.t = "ref"

\* the object a value names
Deref(h, v) == IF IsRef(v) THEN h[v.a] ELSE v

\* the node at address k with its attributes map read through the reference
View(h, k) == SetAttr(h[k], "attributes", Deref(h, h[k].d.attributes))

\* self.attributes[name] = value: r is View(h, k) after the setter ran; the
\* write lands in the map self.attributes names
Written(h, k, r) ==
    IF IsRef(h[k].d.attributes)
    THEN [h EXCEPT ![h[k].d.attributes.a] = r.d.attributes]
    ELSE [h EXCEPT ![k] = r]

\* the mapping d as the caller reads it, its attributes map included
MappingRead(h) ==
    IF Has(h["d"], "attributes")
    THEN Put(h["d"], "attributes", Deref(h, Get(h["d"], "attributes")))
    ELSE h["d"]

-----------------------------------------------------------------------------
(* Operations on nodes built from one mapping *)

\* the attributes maps of the mapping d
SharedAttributes ==
    {EmptyDict, D(<< <<"class", S("a")>> >>), D(<< <<"style", S("color:red")>> >>)}

\* d = {'type': 'Element', 'class_name': cn, 'tag': 'div', 'attributes': {...},
\* 'content': 'x'}, and the same without the key attributes
AliasHeaps ==
    { ("d" :> D(<< <<"type", S("Element")>>, <<"class_name", S(cn)>>, <<"tag", S("div")>>,
                   <<"attributes", Ref("d.attributes")>>, <<"content", S("x")>> >>))
      @@ ("d.attributes" :> a) : cn \in {"Div", "Button"}, a \in SharedAttributes }
    \cup { ("d" :> D(<< <<"type", S("Element")>>, <<"class_name", S("Div")>>,
                        <<"tag", S("div")>>, <<"content", S("x")>> >>)) }

AliasInitState ==
    /\ node = NoObj /\ origin = "none"
    /\ op = [name |-> "init"] /\ steps = 0
    /\ heading = NoObj /\ hres = NoResult
    /\ page = NoObj
    /\ metaLog = <<>> /\ linkLog = <<>> /\ scriptLog = <<>> /\ fragLog = <<>>
    /\ components = BuiltinComponents /\ hooks = EmptyDict /\ generated_pages = <<>>
    /\ heap \in AliasHeaps

NodeAddresses == {"n1", "n2"}

\* n1 = from_dict(d), n2 = from_dict(d)
AliasFromDict ==
    /\ \E k \in NodeAddresses \ DOMAIN heap :
          /\ heap' = heap @@ (k :> from_dict(heap["d"], k))
          /\ op' = [name |-> "from_dict", target |-> k]
    /\ UNCHANGED <<elemVars, steps, headVars, pageVars, pluginVars, apiVars>>

\* a setter called on the node at k; r is the node after the call
AliasSetter(name, k, r) ==
    /\ heap' = Written(heap, k, r)
    /\ op' = [name |-> name, target |-> k]

AliasSetters == {"set_attribute", "add_class", "set_style", "set_event"}

AliasSet ==
    /\ steps < MaxSteps
    /\ \E k \in NodeAddresses \cap DOMAIN heap :
          \/ AliasSetter("set_attribute", k, set_attribute(View(heap, k), "data-x", S("1")))
          \/ AliasSetter("add_class", k, add_class(View(heap, k), S("k")))
          \/ AliasSetter("set_style", k, set_style(View(heap, k), S("margin:0")))
          \/ AliasSetter("set_event", k, set_event(View(heap, k), "onclick", S("go()")))
    /\ steps' = steps + 1
    /\ UNCHANGED <<elemVars, headVars, pageVars, pluginVars, apiVars>>

AliasNext == AliasFromDict \/ AliasSet

SpecAlias == AliasInitState /\ [][AliasNext]_vars

-----------------------------------------------------------------------------
(* Properties of the nodes built from one mapping *)

\* the attributes of the nodes other than the node at k, as their holders read them
OtherAttributes(h, k) ==
    [j \in (NodeAddresses \cap DOMAIN h) \ {k} |-> View(h, j).d.attributes]

\* C28: after n = from_dict(d), mutating n through set_attribute, add_class,
\* set_style or set_event leaves the mapping d, its attributes map included,
\* unchanged, and two nodes reconstructed from the same d do not see each
\* other's attribute changes.
C28_NoAliasing ==
    [][op'.name \in AliasSetters =>
          /\ MappingRead(heap') = MappingRead(heap)
          /\ OtherAttributes(heap', op'.target) = OtherAttributes(heap, op'.target)]_vars

\* n1.set_attribute("data-x", "1") after n1 = from_dict(d) and n2 =
\* from_dict(d): the key is in d['attributes'] and in n2.attributes
C28_Witness ==
    /\ op.name = "set_attribute" /\ op.target = "n1"
    /\ {"n1", "n2"} \subseteq DOMAIN heap
    /\ Has(heap["d"], "attributes")
    /\ Get(heap["d"], "attributes") = Ref("d.attributes")
    /\ heap["n1"].d.attributes = Ref("d.attributes")
    /\ heap["n2"].d.attributes = Ref("d.attributes")
    /\ Get(MappingRead(heap), "attributes") = D(<< <<"data-x", S("1")>> >>)
    /\ View(heap, "n2").d.attributes = D(<< <<"data-x", S("1")>> >>)

-----------------------------------------------------------------------------
(* Properties of the generate endpoint *)

\* the code of a request
CodeOf(data) == IF Truthy(data) THEN GetOr(data, "code", S("")).s ELSE ""

\* C20: api_generate answers HTTP 400 when the request has no JSON body, when
\* code is blank, or when the executed code leaves page unbound or bound to a
\* non-Page; it answers HTTP 500 with the exception message in the error field
\* when executing the code or generating the HTML raises; and it answers 200
\* with the html only when a Page was bound.
C20_ErrorMapping ==
    op.name = "api_generate" =>
        /\ ~op.resp.escaped
        /\ (~Truthy(op.data) \/ CodeOf(op.data) \in BlankPrograms \cup NonPagePrograms)
              => op.resp.status = 400
        /\ CodeOf(op.data) \in RaisingPrograms \cup ExitingPrograms =>
              /\ op.resp.status = 500
              /\ Contains(Get(op.resp.body, "error").s, exec(CodeOf(op.data)).raised.s)
        /\ CodeOf(op.data) \in BrokenPagePrograms =>
              /\ op.resp.status = 500
              /\ Contains(Get(op.resp.body, "error").s, "can only join an iterable")
        /\ op.resp.status = 200 =>
              /\ CodeOf(op.data) \in PagePrograms
              /\ Get(op.resp.body, "html") = S(generate_html(exec(CodeOf(op.data)).page))

\* the submitted code raises SystemExit and no answer is returned
C20_Witness ==
    /\ op.name = "api_generate"
    /\ op.data = CodeOnly("raise SystemExit('bye')")
    /\ op.resp = Escapes("bye")

-----------------------------------------------------------------------------
(* Properties of the store of generated pages *)

\* the request answered with an error: a status of 400 or more, or an
\* exception that left the handler
AnswersError(resp) == resp.escaped \/ resp.status >= 400

\* C30: after any sequence of api_generate (save=true) and api_delete_page
\* requests, each of which may fail at any of its steps, a GeneratedPage
\* record exists in the store if and only if the file
\* generated_pages/<its filename> exists; in particular a request that
\* answers with an error leaves no record behind.
C30_RecordFileConsistency ==
    /\ [](\A i \in 1..Len(generated_pages) : generated_pages[i].on_disk)
    /\ [][(op'.name = "api_generate" /\ AnswersError(op'.resp))
             => Len(generated_pages') <= Len(generated_pages)]_vars

\* a saving request whose file write fails answers 500 and leaves a record
\* whose file does not exist
C30_Witness ==
    /\ op.name = "api_generate"
    /\ op.resp.status = 500
    /\ Len(generated_pages) = 1
    /\ ~generated_pages[1].on_disk
    /\ generated_pages[1].code = CodeOf(op.data)

\* a DELETE whose commit fails has removed the file and kept the record
C30_WitnessDelete ==
    /\ op.name = "api_delete_page"
    /\ op.resp.escaped
    /\ Len(generated_pages) = 1
    /\ generated_pages[1].id = op.page_id
    /\ ~generated_pages[1].on_disk

====
